---- MODULE Spec2Model ----
(***************************************************************************)
(* A model of the Astroport constant-product pair contract                 *)
(* (contracts/pair/src/contract.rs): the swap pricing functions, the       *)
(* liquidity accounting, the spread and slippage assertions and the TWAP   *)
(* accumulator, together with the fixed-point arithmetic of cosmwasm_std   *)
(* they are written in.                                                    *)
(*                                                                         *)
(* Widths and scales are those of the source shrunk so that every value    *)
(* fits the model checker's integers: a Decimal has DecimalPlaces digits   *)
(* (18 in cosmwasm_std), a Uint128 has Uint128Bits bits (128), a Uint256   *)
(* twice as many, and the TWAP precision is 10^TwapPrecision (10^6).       *)
(***************************************************************************)
EXTENDS Integers, Sequences, FiniteSets, TLC

VARIABLES
    asset_infos,    \* <<kind0, kind1>>: "native" or "token", fixed at instantiation
    balances,       \* <<b0, b1>>: what the pair contract holds of each asset
    total_share,    \* supply of the LP token
    config,         \* Config: block_time_last, price0/1_cumulative_last
    block_time,     \* env.block.time of the block being executed
    tx_count,       \* number of transactions executed so far
    call,           \* the message (or function arguments) last handled
    response,       \* what the handler (or function) returned for it
    staking,        \* staking: the ASTRO it holds and the xASTRO supply
    factory,        \* the pools the factory has registered
    bridges,        \* maker: the BRIDGES map, fee token -> bridge token
    maker           \* maker: reward configuration, ASTRO balances, block
                    \* height and the position of the Collect in progress

vars == <<asset_infos, balances, total_share, config, block_time, tx_count,
          call, response, staking, factory, bridges, maker>>

\* The state of the staking and maker contracts, which the pair never touches.
tokenomics == <<staking, factory, bridges, maker>>

----------------------------------------------------------------------------
(* Bounds of the model.                                                    *)

DecimalPlaces == 3
Uint128Bits == 14
TwapPrecision == 1
MaxCalls == 3
MaxBlockTime == 2
MaxAmount == 6

DECIMAL_FRACTIONAL == 10 ^ DecimalPlaces
MaxUint128 == 2 ^ Uint128Bits - 1
MaxUint256 == 2 ^ (2 * Uint128Bits) - 1

----------------------------------------------------------------------------
(* cosmwasm_std arithmetic.  A Uint128 or Uint256 is a natural number, a   *)
(* Decimal or Decimal256 is its numerator over DECIMAL_FRACTIONAL.  An     *)
(* operation that panics or returns Err yields Err.                        *)

Err == 0 - 1

Min(a, b) == IF a <= b THEN a ELSE b

\* floor(a * b / c) with the product taken at full width (full_mul): the
\* product is split on a's quotient and remainder by c, which is the same
\* number and keeps every intermediate value small.
FullMulDiv(a, b, c) == (a \div c) * b + ((a % c) * b) \div c

\* Uint128::multiply_ratio: panics on a zero denominator and when the
\* result does not fit.
Uint128_multiply_ratio(a, n, d) ==
    IF d = 0 THEN Err
    ELSE LET r == FullMulDiv(a, n, d)
         IN  IF r > MaxUint128 THEN Err ELSE r

\* Decimal::from_ratio: floor(n * 10^places / d) in a Uint128.
Decimal_from_ratio(n, d) ==
    IF d = 0 THEN Err
    ELSE LET r == FullMulDiv(n, DECIMAL_FRACTIONAL, d)
         IN  IF r > MaxUint128 THEN Err ELSE r

\* Uint128 * Decimal: floor(a * x / 10^places); zero short-circuits.
Uint128_mul_Decimal(a, x) ==
    IF a = 0 \/ x = 0 THEN 0
    ELSE LET r == FullMulDiv(x, a, DECIMAL_FRACTIONAL)
         IN  IF r > MaxUint128 THEN Err ELSE r

\* Decimal256::from_ratio: floor(n * 10^places / d) in a Uint256.
Decimal256_from_ratio(n, d) ==
    IF d = 0 THEN Err
    ELSE LET r == FullMulDiv(n, DECIMAL_FRACTIONAL, d)
         IN  IF r > MaxUint256 THEN Err ELSE r

\* Decimal256::to_uint_ceil.
Decimal256_to_uint_ceil(x) ==
    IF x = 0 THEN 0 ELSE 1 + (x - 1) \div DECIMAL_FRACTIONAL

\* Uint256 * Decimal256 (either order): floor(a * x / 10^places).
Uint256_mul_Decimal256(a, x) ==
    IF a = 0 \/ x = 0 THEN 0
    ELSE LET r == FullMulDiv(x, a, DECIMAL_FRACTIONAL)
         IN  IF r > MaxUint256 THEN Err ELSE r

\* Decimal256 * Decimal256: floor(x * y / 10^places).
Decimal256_mul(x, y) ==
    LET r == FullMulDiv(x, y, DECIMAL_FRACTIONAL)
    IN  IF r > MaxUint256 THEN Err ELSE r

\* Decimal256 / Decimal256: floor(x * 10^places / y).
Decimal256_div(x, y) == Decimal256_from_ratio(x, y)

\* Decimal256::one() and Decimal::one().
Decimal_one == DECIMAL_FRACTIONAL

\* Uint128::try_from(Uint256).unwrap().
Uint128_try_from(x) == IF x > MaxUint128 THEN Err ELSE x

----------------------------------------------------------------------------
(* Swap pricing.                                                           *)

Panic == [err |-> "panic", return_amount |-> 0, spread_amount |-> 0,
          commission_amount |-> 0]

\* compute_swap: (return_amount, spread_amount, commission_amount), or a panic.
compute_swap(offer_pool, ask_pool, offer_amount, commission_rate) ==
    LET cp == offer_pool * ask_pool
        quotient == Decimal256_from_ratio(cp, offer_pool + offer_amount)
    IN  IF quotient = Err THEN Panic
        ELSE
        LET return_amount == ask_pool - Decimal256_to_uint_ceil(quotient)
            price == Decimal256_from_ratio(ask_pool, offer_pool)
        IN  IF return_amount < 0 \/ price = Err THEN Panic
            ELSE
            LET quote == Uint256_mul_Decimal256(offer_amount, price)
            IN  IF quote = Err \/ quote < return_amount THEN Panic
                ELSE
                LET spread_amount == Uint128_try_from(quote - return_amount)
                    commission_amount ==
                        Uint128_try_from(
                            Uint256_mul_Decimal256(return_amount, commission_rate))
                IN  IF spread_amount = Err \/ commission_amount = Err
                       \/ commission_amount > return_amount
                    THEN Panic
                    ELSE [err |-> "ok",
                          return_amount |-> return_amount - commission_amount,
                          spread_amount |-> spread_amount,
                          commission_amount |-> commission_amount]

PanicOffer == [err |-> "panic", offer_amount |-> 0, spread_amount |-> 0,
               commission_amount |-> 0]

\* compute_offer_amount: (offer_amount, spread_amount, commission_amount),
\* or a panic.
compute_offer_amount(offer_pool, ask_pool, ask_amount, commission_rate) ==
    LET cp == offer_pool * ask_pool
    IN  IF cp > MaxUint128 \/ commission_rate >= Decimal_one THEN PanicOffer
        ELSE
        LET one_minus_commission == Decimal_one - commission_rate
            inv_one_minus_commission ==
                Decimal256_div(Decimal_one, one_minus_commission)
            a == Uint256_mul_Decimal256(ask_amount, inv_one_minus_commission)
        IN  IF inv_one_minus_commission = Err \/ a = Err \/ a >= ask_pool
            THEN PanicOffer
            ELSE
            LET b == ask_pool - a
                offer_amount == Uint128_try_from(cp \div b - offer_pool)
                price == Decimal256_from_ratio(ask_pool, offer_pool)
            IN  IF offer_amount = Err \/ price = Err THEN PanicOffer
                ELSE
                LET quote == Uint256_mul_Decimal256(offer_amount, price)
                    spread_amount ==
                        IF quote = Err THEN Err
                        ELSE IF quote < a THEN 0
                        ELSE Uint128_try_from(quote - a)
                    commission_amount ==
                        Uint128_try_from(
                            Uint256_mul_Decimal256(a, commission_rate))
                IN  IF spread_amount = Err \/ commission_amount = Err
                    THEN PanicOffer
                    ELSE [err |-> "ok",
                          offer_amount |-> offer_amount,
                          spread_amount |-> spread_amount,
                          commission_amount |-> commission_amount]

\* calculate_maker_fee: the amount sent to the fee collector (0 for None).
calculate_maker_fee(commission_amount, maker_commission_rate) ==
    Uint128_mul_Decimal(commission_amount, maker_commission_rate)

----------------------------------------------------------------------------
(* Spread and slippage assertions.  An Option is <<>> (None) or <<x>>.     *)

None == <<>>
Some(x) == <<x>>
unwrap_or(opt, default) == IF opt = None THEN default ELSE opt[1]

DEFAULT_SLIPPAGE == (5 * DECIMAL_FRACTIONAL) \div 1000
MAX_ALLOWED_SLIPPAGE == DECIMAL_FRACTIONAL \div 2

\* assert_max_spread rejecting a spread equal to max_spread as well (>= for
\* >).
assert_max_spread_inclusive(belief_price, max_spread_opt, offer_amount, return_amount, spread_amount) ==
    LET max_spread == unwrap_or(max_spread_opt, DEFAULT_SLIPPAGE)
    IN  IF max_spread > MAX_ALLOWED_SLIPPAGE THEN "AllowedSpreadAssertion"
        ELSE IF belief_price # None
        THEN LET inv == Decimal256_div(Decimal_one, belief_price[1])
                 expected_return ==
                     IF inv = Err THEN Err
                     ELSE Uint256_mul_Decimal256(offer_amount, inv)
             IN  IF expected_return = Err THEN "panic"
                 ELSE IF return_amount < expected_return
                 THEN LET ratio == Decimal256_from_ratio(
                                       expected_return - return_amount,
                                       expected_return)
                      IN  IF ratio = Err THEN "panic"
                          ELSE IF ratio >= max_spread THEN "MaxSpreadAssertion"
                          ELSE "ok"
                 ELSE "ok"
        ELSE IF return_amount + spread_amount > MaxUint128 THEN "panic"
        ELSE LET ratio == Decimal_from_ratio(spread_amount,
                                             return_amount + spread_amount)
             IN  IF ratio = Err THEN "panic"
                 ELSE IF ratio >= max_spread THEN "MaxSpreadAssertion"
                 ELSE "ok"

\* assert_max_spread: "ok", a ContractError, or "panic".
assert_max_spread(belief_price, max_spread_opt, offer_amount, return_amount, spread_amount) ==
    LET max_spread == unwrap_or(max_spread_opt, DEFAULT_SLIPPAGE)
    IN  IF max_spread > MAX_ALLOWED_SLIPPAGE THEN "AllowedSpreadAssertion"
        ELSE IF belief_price # None
        THEN LET inv == Decimal256_div(Decimal_one, belief_price[1])
                 expected_return ==
                     IF inv = Err THEN Err
                     ELSE Uint256_mul_Decimal256(offer_amount, inv)
             IN  IF expected_return = Err THEN "panic"
                 ELSE IF return_amount < expected_return
                 THEN LET ratio == Decimal256_from_ratio(
                                       expected_return - return_amount,
                                       expected_return)
                      IN  IF ratio = Err THEN "panic"
                          ELSE IF ratio > max_spread THEN "MaxSpreadAssertion"
                          ELSE "ok"
                 ELSE "ok"
        ELSE IF return_amount + spread_amount > MaxUint128 THEN "panic"
        ELSE LET ratio == Decimal_from_ratio(spread_amount,
                                             return_amount + spread_amount)
             IN  IF ratio = Err THEN "panic"
                 ELSE IF ratio > max_spread THEN "MaxSpreadAssertion"
                 ELSE "ok"

\* assert_slippage_tolerance comparing in one direction only.
assert_slippage_tolerance_one_sided(slippage_tolerance_opt, deposits, pools) ==
    LET slippage_tolerance == unwrap_or(slippage_tolerance_opt, DEFAULT_SLIPPAGE)
    IN  IF slippage_tolerance > MAX_ALLOWED_SLIPPAGE THEN "AllowedSpreadAssertion"
        ELSE
        LET one_minus_slippage_tolerance == Decimal_one - slippage_tolerance
            d01 == Decimal256_from_ratio(deposits[1], deposits[2])
            p01 == Decimal256_from_ratio(pools[1], pools[2])
            lhs01 == IF d01 = Err THEN Err
                     ELSE Decimal256_mul(d01, one_minus_slippage_tolerance)
        IN  IF lhs01 = Err \/ p01 = Err THEN "panic"
            ELSE IF lhs01 > p01 THEN "MaxSlippageAssertion"
            ELSE "ok"

\* assert_slippage_tolerance: "ok", a ContractError, or "panic".  The second
\* comparison is evaluated only when the first is false.
assert_slippage_tolerance(slippage_tolerance_opt, deposits, pools) ==
    LET slippage_tolerance == unwrap_or(slippage_tolerance_opt, DEFAULT_SLIPPAGE)
    IN  IF slippage_tolerance > MAX_ALLOWED_SLIPPAGE THEN "AllowedSpreadAssertion"
        ELSE
        LET one_minus_slippage_tolerance == Decimal_one - slippage_tolerance
            d01 == Decimal256_from_ratio(deposits[1], deposits[2])
            p01 == Decimal256_from_ratio(pools[1], pools[2])
            d10 == Decimal256_from_ratio(deposits[2], deposits[1])
            p10 == Decimal256_from_ratio(pools[2], pools[1])
            lhs01 == IF d01 = Err THEN Err
                     ELSE Decimal256_mul(d01, one_minus_slippage_tolerance)
            lhs10 == IF d10 = Err THEN Err
                     ELSE Decimal256_mul(d10, one_minus_slippage_tolerance)
        IN  IF lhs01 = Err \/ p01 = Err THEN "panic"
            ELSE IF lhs01 > p01 THEN "MaxSlippageAssertion"
            ELSE IF lhs10 = Err \/ p10 = Err THEN "panic"
            ELSE IF lhs10 > p10 THEN "MaxSlippageAssertion"
            ELSE "ok"

----------------------------------------------------------------------------
(* The TWAP accumulator.                                                   *)

\* accumulate_prices returning Ok(None) while a reserve is zero, so that
\* block_time_last stays where it was.
accumulate_prices_keeps_time(now, cfg, x, y) ==
    LET same == [err |-> "ok", some |-> FALSE,
                 pcl0 |-> cfg.price0_cumulative_last,
                 pcl1 |-> cfg.price1_cumulative_last,
                 block_time |-> cfg.block_time_last]
    IN  IF now <= cfg.block_time_last THEN same
        ELSE
        LET time_elapsed == now - cfg.block_time_last
        IN  IF x # 0 /\ y # 0
            THEN LET price_precision == 10 ^ TwapPrecision
                     scaled == time_elapsed * price_precision
                 IN  IF scaled > MaxUint128
                     THEN [same EXCEPT !.err = "Std(Overflow)"]
                     ELSE
                     LET inc0 == Uint128_multiply_ratio(scaled, y, x)
                         inc1 == Uint128_multiply_ratio(scaled, x, y)
                     IN  IF inc0 = Err \/ inc1 = Err
                         THEN [same EXCEPT !.err = "panic"]
                         ELSE [err |-> "ok", some |-> TRUE,
                               pcl0 |-> (cfg.price0_cumulative_last + inc0)
                                            % (MaxUint128 + 1),
                               pcl1 |-> (cfg.price1_cumulative_last + inc1)
                                            % (MaxUint128 + 1),
                               block_time |-> now]
            ELSE same

\* accumulate_prices counting both the last block and the current one in the
\* interval (an off-by-one in the elapsed time and its guard).
accumulate_prices_inclusive_interval(now, cfg, x, y) ==
    LET same == [err |-> "ok", some |-> FALSE,
                 pcl0 |-> cfg.price0_cumulative_last,
                 pcl1 |-> cfg.price1_cumulative_last,
                 block_time |-> cfg.block_time_last]
    IN  IF now < cfg.block_time_last THEN same
        ELSE
        LET time_elapsed == now - cfg.block_time_last + 1
        IN  IF x # 0 /\ y # 0
            THEN LET price_precision == 10 ^ TwapPrecision
                     scaled == time_elapsed * price_precision
                 IN  IF scaled > MaxUint128
                     THEN [same EXCEPT !.err = "Std(Overflow)"]
                     ELSE
                     LET inc0 == Uint128_multiply_ratio(scaled, y, x)
                         inc1 == Uint128_multiply_ratio(scaled, x, y)
                     IN  IF inc0 = Err \/ inc1 = Err
                         THEN [same EXCEPT !.err = "panic"]
                         ELSE [err |-> "ok", some |-> TRUE,
                               pcl0 |-> (cfg.price0_cumulative_last + inc0)
                                            % (MaxUint128 + 1),
                               pcl1 |-> (cfg.price1_cumulative_last + inc1)
                                            % (MaxUint128 + 1),
                               block_time |-> now]
            ELSE [same EXCEPT !.some = TRUE, !.block_time = now]

\* accumulate_prices: Ok(None) is some = FALSE; Ok(Some((pcl0, pcl1, time)))
\* is some = TRUE; a failed checked_mul is Std(Overflow); multiply_ratio
\* panics.
accumulate_prices(now, cfg, x, y) ==
    LET same == [err |-> "ok", some |-> FALSE,
                 pcl0 |-> cfg.price0_cumulative_last,
                 pcl1 |-> cfg.price1_cumulative_last,
                 block_time |-> cfg.block_time_last]
    IN  IF now <= cfg.block_time_last THEN same
        ELSE
        LET time_elapsed == now - cfg.block_time_last
        IN  IF x # 0 /\ y # 0
            THEN LET price_precision == 10 ^ TwapPrecision
                     scaled == time_elapsed * price_precision
                 IN  IF scaled > MaxUint128
                     THEN [same EXCEPT !.err = "Std(Overflow)"]
                     ELSE
                     LET inc0 == Uint128_multiply_ratio(scaled, y, x)
                         inc1 == Uint128_multiply_ratio(scaled, x, y)
                     IN  IF inc0 = Err \/ inc1 = Err
                         THEN [same EXCEPT !.err = "panic"]
                         ELSE [err |-> "ok", some |-> TRUE,
                               pcl0 |-> (cfg.price0_cumulative_last + inc0)
                                            % (MaxUint128 + 1),
                               pcl1 |-> (cfg.price1_cumulative_last + inc1)
                                            % (MaxUint128 + 1),
                               block_time |-> now]
            ELSE [same EXCEPT !.some = TRUE, !.block_time = now]

\* The Config a handler saves after accumulate_prices returned acc.
SaveConfig(cfg, acc) ==
    IF acc.some
    THEN [block_time_last |-> acc.block_time,
          price0_cumulative_last |-> acc.pcl0,
          price1_cumulative_last |-> acc.pcl1]
    ELSE cfg

----------------------------------------------------------------------------
(* Liquidity accounting.                                                   *)

\* U256::integer_sqrt: Newton's iteration from a power of two above the root.
RECURSIVE BitLength(_)
BitLength(n) == IF n = 0 THEN 0 ELSE 1 + BitLength(n \div 2)

RECURSIVE SqrtIterate(_, _)
SqrtIterate(n, x_prev) ==
    LET x == (x_prev + n \div x_prev) \div 2
    IN  IF x >= x_prev THEN x_prev ELSE SqrtIterate(n, x)

integer_sqrt(n) ==
    IF n <= 1 THEN n ELSE SqrtIterate(n, 2 ^ ((BitLength(n) + 1) \div 2))

\* get_share_in_assets with the share ratio taken by integer division (the
\* floor-to-zero the fixed-point ratio is there to avoid).
get_share_in_assets_integer_ratio(pools, amount, total) ==
    LET share_ratio == IF total # 0 THEN amount \div total ELSE 0
    IN  <<pools[1] * share_ratio, pools[2] * share_ratio>>

\* get_share_in_assets: the refund of each asset, or Err when the ratio or
\* a product panics.
get_share_in_assets(pools, amount, total) ==
    LET share_ratio == IF total # 0 THEN Decimal_from_ratio(amount, total) ELSE 0
    IN  IF share_ratio = Err THEN <<Err, Err>>
        ELSE <<Uint128_mul_Decimal(pools[1], share_ratio),
               Uint128_mul_Decimal(pools[2], share_ratio)>>

\* Addresses.
PairAddr == "pair"
LpToken == "lp_token"
Generator == "generator"
FeeCollector == "maker"
User == "user"
TokenAddr(i) == IF i = 1 THEN "token0" ELSE "token1"

\* A failed call: an error and no message.
Failed(e) == [err |-> e, messages |-> <<>>]

\* mint_liquidity_token_message.
mint_liquidity_token_message(recipient, amount, auto_stake, generator) ==
    IF ~auto_stake
    THEN [err |-> "ok",
          messages |-> <<[kind |-> "mint", to |-> recipient, amount |-> amount]>>]
    ELSE IF generator = None THEN Failed("AutoStakeError")
    ELSE [err |-> "ok",
          messages |-> <<[kind |-> "mint", to |-> PairAddr, amount |-> amount],
                         [kind |-> "send", to |-> generator[1], amount |-> amount]>>]

\* What query_pools returns while the call c executes: the balances with the
\* native funds of the message, and the tokens a cw20 Send moved, credited.
query_pools(bal, infos, c) ==
    IF c.msg = "provide_liquidity"
    THEN [i \in 1..2 |-> bal[i] + IF infos[i] = "native" THEN c.deposits[i] ELSE 0]
    ELSE IF c.msg = "swap"
    THEN [i \in 1..2 |-> bal[i] + IF i = c.offer THEN c.amount ELSE 0]
    ELSE bal

\* pre_deposit_pool without the subtraction of a native deposit.
pre_deposit_pool_keeps_deposit(info, queried, deposit) == queried

\* The reserve provide_liquidity prices a deposit against: a native deposit
\* is already in the queried balance and is subtracted (checked_sub), a token
\* deposit is pulled afterwards.
pre_deposit_pool(info, queried, deposit) ==
    IF info = "token" THEN queried
    ELSE IF deposit > queried THEN Err ELSE queried - deposit

\* liquidity_share taking the larger of the two proportional shares.
liquidity_share_max(deposits, total, pools) ==
    IF total = 0
    THEN Uint128_try_from(integer_sqrt(deposits[1] * deposits[2]))
    ELSE LET s0 == Uint128_multiply_ratio(deposits[1], total, pools[1])
             s1 == Uint128_multiply_ratio(deposits[2], total, pools[2])
         IN  IF s0 = Err \/ s1 = Err THEN Err
             ELSE IF s0 >= s1 THEN s0 ELSE s1

\* The share provide_liquidity mints.
liquidity_share(deposits, total, pools) ==
    IF total = 0
    THEN Uint128_try_from(integer_sqrt(deposits[1] * deposits[2]))
    ELSE LET s0 == Uint128_multiply_ratio(deposits[1], total, pools[1])
             s1 == Uint128_multiply_ratio(deposits[2], total, pools[2])
         IN  IF s0 = Err \/ s1 = Err THEN Err ELSE Min(s0, s1)

\* provide_liquidity, its last step: the response, with the messages, the
\* minted share, the Config to save and (for the record) the reserves the
\* handler computed with.
provide_response(infos, cfg, c, pools, share, mint, acc) ==
    IF mint.err # "ok" THEN Failed(mint.err)
    ELSE IF acc.err # "ok" THEN Failed(acc.err)
    ELSE [err |-> "ok",
          messages |->
              SelectSeq(<<[kind |-> "transfer_from", asset |-> 1,
                           owner |-> c.sender, amount |-> c.deposits[1]],
                          [kind |-> "transfer_from", asset |-> 2,
                           owner |-> c.sender, amount |-> c.deposits[2]]>>,
                        LAMBDA m : infos[m.asset] = "token")
                  \o mint.messages,
          share |-> share, pools |-> pools,
          config |-> SaveConfig(cfg, acc)]

\* provide_liquidity from the slippage assertion on.
provide_share(infos, cfg, now, c, pools, slippage, share) ==
    IF slippage # "ok" THEN Failed(slippage)
    ELSE IF share = Err THEN Failed("panic")
    ELSE provide_response(infos, cfg, c, pools, share,
             mint_liquidity_token_message(c.sender, share, c.auto_stake,
                                          c.generator),
             accumulate_prices(now, cfg, pools[1], pools[2]))

\* provide_liquidity once the pre-deposit reserves are known.
provide_pools(infos, total, cfg, now, c, pools) ==
    IF pools[1] = Err \/ pools[2] = Err THEN Failed("Std(Overflow)")
    ELSE provide_share(infos, cfg, now, c, pools,
             IF total = 0 THEN "ok"
             ELSE assert_slippage_tolerance(c.slippage_tolerance, c.deposits,
                                            pools),
             liquidity_share(c.deposits, total, pools))

\* provide_liquidity.
provide_liquidity(bal, infos, total, cfg, now, c) ==
    IF c.deposits[1] = 0 \/ c.deposits[2] = 0 THEN Failed("InvalidZeroAmount")
    ELSE provide_pools(infos, total, cfg, now, c,
             [i \in 1..2 |-> pre_deposit_pool(infos[i],
                                              query_pools(bal, infos, c)[i],
                                              c.deposits[i])])

\* withdraw_liquidity, its last step: the response.
withdraw_response(cfg, c, pools, refund_assets, acc) ==
    IF acc.err # "ok" THEN Failed(acc.err)
    ELSE [err |-> "ok",
          messages |->
              <<[kind |-> "transfer", asset |-> 1, to |-> c.from,
                 amount |-> refund_assets[1]],
                [kind |-> "transfer", asset |-> 2, to |-> c.from,
                 amount |-> refund_assets[2]],
                [kind |-> "burn", amount |-> c.amount]>>,
          refund_assets |-> refund_assets, pools |-> pools,
          config |-> SaveConfig(cfg, acc)]

\* withdraw_liquidity once pool_info has answered.
withdraw_pools(total, cfg, now, c, pools, refund_assets) ==
    IF refund_assets[1] = Err \/ refund_assets[2] = Err THEN Failed("panic")
    ELSE withdraw_response(cfg, c, pools, refund_assets,
             accumulate_prices(now, cfg, pools[1], pools[2]))

\* withdraw_liquidity.
withdraw_liquidity(bal, infos, total, cfg, now, c) ==
    IF c.sender # LpToken THEN Failed("Unauthorized")
    ELSE withdraw_pools(total, cfg, now, c, query_pools(bal, infos, c),
             get_share_in_assets(query_pools(bal, infos, c), c.amount, total))

\* swap, its last step: the response.
swap_response(cfg, c, pools, sw, spread, maker_fee_amount, acc) ==
    IF spread # "ok" THEN Failed(spread)
    ELSE IF maker_fee_amount = Err THEN Failed("panic")
    ELSE IF acc.err # "ok" THEN Failed(acc.err)
    ELSE [err |-> "ok",
          messages |->
              <<[kind |-> "transfer", asset |-> 3 - c.offer, to |-> c.from,
                 amount |-> sw.return_amount]>>
              \o (IF maker_fee_amount = 0 THEN <<>>
                  ELSE <<[kind |-> "transfer", asset |-> 3 - c.offer,
                          to |-> FeeCollector,
                          amount |-> maker_fee_amount]>>),
          return_amount |-> sw.return_amount,
          spread_amount |-> sw.spread_amount,
          commission_amount |-> sw.commission_amount,
          maker_fee_amount |-> maker_fee_amount,
          pools |-> pools,
          config |-> SaveConfig(cfg, acc)]

\* swap once compute_swap has answered sw.
swap_computed(cfg, now, c, pools, sw) ==
    IF sw.err # "ok" THEN Failed(sw.err)
    ELSE swap_response(cfg, c, pools, sw,
             IF sw.return_amount + sw.commission_amount > MaxUint128
             THEN "panic"
             ELSE assert_max_spread(c.belief_price, c.max_spread, c.amount,
                                    sw.return_amount + sw.commission_amount,
                                    sw.spread_amount),
             IF c.fee_info.fee_address = None THEN 0
             ELSE calculate_maker_fee(sw.commission_amount,
                                      c.fee_info.maker_fee_rate),
             accumulate_prices(now, cfg, pools[1], pools[2]))

\* swap once the reserves before the offer are known.
swap_pools(cfg, now, c, pools) ==
    swap_computed(cfg, now, c, pools,
                  compute_swap(pools[c.offer], pools[3 - c.offer], c.amount,
                               c.fee_info.total_fee_rate))

\* swap computing on the queried balances, the offered amount still in the
\* offer pool.
swap_keeps_offer(bal, infos, total, cfg, now, c) ==
    IF c.via = "execute" /\ infos[c.offer] # "native" THEN Failed("Unauthorized")
    ELSE IF c.via = "cw20" /\ ~(\E i \in 1..2 :
                                  infos[i] = "token" /\ c.sender = TokenAddr(i))
    THEN Failed("Unauthorized")
    ELSE swap_pools(cfg, now, c, query_pools(bal, infos, c))

\* swap, entered from ExecuteMsg::Swap (native offers only) or from the cw20
\* hook (only from a token contract of the pool).
swap(bal, infos, total, cfg, now, c) ==
    IF c.via = "execute" /\ infos[c.offer] # "native" THEN Failed("Unauthorized")
    ELSE IF c.via = "cw20" /\ ~(\E i \in 1..2 :
                                  infos[i] = "token" /\ c.sender = TokenAddr(i))
    THEN Failed("Unauthorized")
    ELSE swap_pools(cfg, now, c,
             [i \in 1..2 |->
                 IF i = c.offer THEN query_pools(bal, infos, c)[i] - c.amount
                 ELSE query_pools(bal, infos, c)[i]])

\* execute: the dispatch on the message.
execute(bal, infos, total, cfg, now, c) ==
    IF c.msg = "provide_liquidity" THEN provide_liquidity(bal, infos, total, cfg, now, c)
    ELSE IF c.msg = "withdraw_liquidity" THEN withdraw_liquidity(bal, infos, total, cfg, now, c)
    ELSE swap(bal, infos, total, cfg, now, c)

----------------------------------------------------------------------------
(* The host: it runs the handler and, when it returned Ok, the messages of *)
(* the response, all or nothing.  A transfer moves an asset out of the     *)
(* pair, a transfer_from pulls a token deposit in, a mint or a burn        *)
(* changes the LP supply.                                                  *)

ApplyMessage(st, m) ==
    IF st.err # "ok" THEN st
    ELSE IF m.kind = "transfer"
    THEN IF m.amount > st.balances[m.asset] THEN [st EXCEPT !.err = "SubMsgFailed"]
         ELSE [st EXCEPT !.balances[m.asset] = @ - m.amount]
    ELSE IF m.kind = "transfer_from"
    THEN IF st.balances[m.asset] + m.amount > MaxUint128
         THEN [st EXCEPT !.err = "SubMsgFailed"]
         ELSE [st EXCEPT !.balances[m.asset] = @ + m.amount]
    ELSE IF m.kind = "mint"
    THEN IF st.total_share + m.amount > MaxUint128
         THEN [st EXCEPT !.err = "SubMsgFailed"]
         ELSE [st EXCEPT !.total_share = @ + m.amount]
    ELSE IF m.kind = "burn"
    THEN IF m.amount > st.total_share THEN [st EXCEPT !.err = "SubMsgFailed"]
         ELSE [st EXCEPT !.total_share = @ - m.amount]
    ELSE st

RECURSIVE ApplyMessages(_, _)
ApplyMessages(st, msgs) ==
    IF msgs = <<>> THEN st
    ELSE ApplyMessages(ApplyMessage(st, Head(msgs)), Tail(msgs))

\* The end of a transaction: the state st the messages of the response r
\* leave is committed, or nothing is.
Commit(c, r, st) ==
    /\ call' = c
    /\ IF st.err = "ok"
       THEN /\ response' = r
            /\ balances' = st.balances
            /\ total_share' = st.total_share
            /\ config' = r.config
       ELSE /\ response' = Failed(st.err)
            /\ UNCHANGED <<balances, total_share, config>>
    /\ tx_count' = tx_count + 1
    /\ UNCHANGED <<asset_infos, block_time, tokenomics>>

\* The messages of the response r are run on the balances the handler saw.
Dispatch(c, r, queried) ==
    Commit(c, r, IF r.err # "ok" THEN [err |-> r.err]
                 ELSE ApplyMessages([err |-> "ok", balances |-> queried,
                                     total_share |-> total_share],
                                    r.messages))

\* One transaction: the call c is handled in the current block.  The funds
\* and tokens it brings exist, so no balance exceeds the amount width.
Transaction(c) ==
    /\ \A i \in 1..2 : query_pools(balances, asset_infos, c)[i] <= MaxUint128
    /\ Dispatch(c, execute(balances, asset_infos, total_share, config,
                           block_time, c),
                query_pools(balances, asset_infos, c))

----------------------------------------------------------------------------
(* Specification Spec: the pair contract after instantiation, with one     *)
(* native and one token asset, taking provide_liquidity, withdraw_liquidity*)
(* and swap calls; other accounts may transfer assets to it.               *)

NoResponse == [err |-> "none"]
NoCall == [msg |-> "none"]

\* The staking contract after instantiation: nothing deposited, no xASTRO.
InitStaking == staking = [total_deposit |-> 0, total_shares |-> 0]

\* The fee tokens the maker collects, in the order it is asked for them.
FeeTokenSeq == <<"a", "b", "c", "d", "e">>
FeeTokens == {FeeTokenSeq[i] : i \in 1..Len(FeeTokenSeq)}
NoFees == [t \in FeeTokens |-> 0]

\* The maker after instantiation: no bridge, rewards not enabled, no fee and
\* no ASTRO collected, no Collect in progress.
NoBridges == [t \in {} |-> t]
NoCollect == [step |-> "idle", assets |-> {}, depth |-> 0, hops |-> 0,
              saved |-> [fees |-> NoFees, astro |-> 0]]
\* The maker after instantiation: rewards not enabled, nothing held.
InitConfig ==
    [rewards_enabled |-> FALSE, pre_upgrade_astro_amount |-> 0,
     pre_upgrade_blocks |-> 0, remainder_reward |-> 0,
     last_distribution_block |-> 0, astro |-> 0, governance |-> 0,
     staking |-> 0, height |-> 1, fees |-> NoFees, collect |-> NoCollect]

InitMaker ==
    /\ bridges = NoBridges
    /\ maker = InitConfig

\* No staking or maker activity: the state the pair specifications keep.
InitTokenomics == InitStaking /\ factory = {} /\ InitMaker

InitPair ==
    /\ asset_infos = <<"native", "token">>
    /\ balances = <<0, 0>>
    /\ total_share = 0
    /\ config = [block_time_last |-> 0, price0_cumulative_last |-> 0,
                 price1_cumulative_last |-> 0]
    /\ block_time = 1
    /\ tx_count = 0

Init ==
    /\ InitPair
    /\ InitTokenomics
    /\ call = NoCall
    /\ response = NoResponse

\* The fee configurations the factory answers with.
Rate(num, den) == (num * DECIMAL_FRACTIONAL) \div den
FeeInfos ==
    { [total_fee_rate |-> Rate(3, 1000), maker_fee_rate |-> 0, fee_address |-> None],
      [total_fee_rate |-> Rate(1, 2), maker_fee_rate |-> DECIMAL_FRACTIONAL,
       fee_address |-> Some(FeeCollector)] }

ProvideCall(d0, d1, tol) ==
    [msg |-> "provide_liquidity", sender |-> User, deposits |-> <<d0, d1>>,
     slippage_tolerance |-> tol, auto_stake |-> FALSE, generator |-> None]

WithdrawCall(sender, amount) ==
    [msg |-> "withdraw_liquidity", sender |-> sender, from |-> User,
     amount |-> amount]

\* A swap offering asset i: a native asset through ExecuteMsg::Swap, a token
\* through its contract's Send hook.
SwapCall(i, amount, belief_price, max_spread, fee_info) ==
    [msg |-> "swap", offer |-> i, amount |-> amount,
     via |-> IF asset_infos[i] = "native" THEN "execute" ELSE "cw20",
     sender |-> IF asset_infos[i] = "native" THEN User ELSE TokenAddr(i),
     from |-> User, belief_price |-> belief_price, max_spread |-> max_spread,
     fee_info |-> fee_info]

PoolDeposits == {100, 200, DECIMAL_FRACTIONAL}
PoolOffers == {1, DECIMAL_FRACTIONAL}

\* The LP amounts a holder sends back: one share, the share just minted, all.
WithdrawAmounts ==
    {a \in {1, total_share}
           \cup (IF call.msg = "provide_liquidity" /\ response.err = "ok"
                 THEN {response.share} ELSE {}) :
        1 <= a /\ a <= total_share}

ProvideLiquidity ==
    /\ tx_count < MaxCalls
    /\ \E d0 \in PoolDeposits, d1 \in PoolDeposits :
      \E tol \in {None, Some(MAX_ALLOWED_SLIPPAGE)} :
          Transaction(ProvideCall(d0, d1, tol))

WithdrawLiquidity ==
    /\ tx_count < MaxCalls
    /\ \E a \in WithdrawAmounts : Transaction(WithdrawCall(LpToken, a))

Swap ==
    /\ tx_count < MaxCalls
    /\ \E i \in 1..2, a \in PoolOffers, f \in FeeInfos :
          Transaction(SwapCall(i, a, None, Some(MAX_ALLOWED_SLIPPAGE), f))

\* Another account transfers one unit of an asset to the pair.
Donate ==
    /\ tx_count < MaxCalls
    /\ \E i \in 1..2 :
          /\ balances[i] < MaxUint128
          /\ balances' = [balances EXCEPT ![i] = @ + 1]
          /\ call' = [msg |-> "transfer", asset |-> i, amount |-> 1]
          /\ response' = [err |-> "ok", messages |-> <<>>]
    /\ tx_count' = tx_count + 1
    /\ UNCHANGED <<asset_infos, total_share, config, block_time, tokenomics>>

\* The chain produces the next block, one second later.
NewBlock ==
    /\ block_time < MaxBlockTime
    /\ block_time' = block_time + 1
    /\ UNCHANGED <<asset_infos, balances, total_share, config, tx_count,
                   call, response, tokenomics>>

Next == ProvideLiquidity \/ WithdrawLiquidity \/ Swap \/ Donate \/ NewBlock

Spec == Init /\ [][Next]_vars

----------------------------------------------------------------------------
(* Properties of the pair under Spec.                                      *)

\* A step that is a transaction answered Ok for the message msg.
Handled(msg) ==
    /\ tx_count' = tx_count + 1
    /\ call'.msg = msg
    /\ response'.err = "ok"

\* C1: every successful swap on a pool with nonzero reserves and a positive
\* offer leaves the product of the reserves at least what it was:
\* (offer_pool + offer_amount) * (ask_pool - return_amount - maker_fee_amount)
\* >= offer_pool * ask_pool, so reserve0 * reserve1 never decreases over
\* swaps.
C1_ProductNeverDecreases ==
    [][ (Handled("swap") /\ balances[1] > 0 /\ balances[2] > 0
            /\ call'.amount > 0)
        => LET o == call'.offer
               a == 3 - call'.offer
           IN  /\ balances'[o] = balances[o] + call'.amount
               /\ balances'[a] = balances[a] - response'.return_amount
                                              - response'.maker_fee_amount
               /\ response'.maker_fee_amount <= response'.commission_amount
               /\ balances'[1] * balances'[2] >= balances[1] * balances[2] ]_vars

\* C2: a provide_liquidity with both deposits positive mints
\* floor(sqrt(d0 * d1)) when the LP supply is 0 and otherwise
\* min(floor(d0 * total_share / reserve0), floor(d1 * total_share / reserve1))
\* over the reserves held before the deposit; (100, 100) into an empty pool
\* mints 100 and a further (100, 100) against (100, 100) with supply 100
\* mints 100.
C2_MintedShare ==
    [][ Handled("provide_liquidity")
        => LET d == call'.deposits
               s == response'.share
               mint == response'.messages[Len(response'.messages)]
           IN  /\ d[1] > 0 /\ d[2] > 0
               /\ total_share = 0
                    => /\ s * s <= d[1] * d[2]
                       /\ (s + 1) * (s + 1) > d[1] * d[2]
               /\ total_share > 0
                    => s = Min((d[1] * total_share) \div balances[1],
                               (d[2] * total_share) \div balances[2])
               /\ mint.kind = "mint" /\ mint.amount = s
               /\ total_share' = total_share + s
               /\ (d = <<100, 100>> /\ total_share = 0) => s = 100
               /\ (d = <<100, 100>> /\ balances = <<100, 100>>
                      /\ total_share = 100) => s = 100 ]_vars

\* The two deposits of (100, 100) have been made, each minting 100.
C2_Witness ==
    /\ call.msg = "provide_liquidity" /\ response.err = "ok"
    /\ call.deposits = <<100, 100>> /\ response.share = 100
    /\ total_share = 200 /\ balances = <<200, 200>>

\* A first deposit whose product is not a square, and a later deposit whose
\* two proportional shares differ, have been minted for.
C2_WitnessRounding ==
    /\ call.msg = "provide_liquidity" /\ response.err = "ok"
    /\ response.share * response.share < call.deposits[1] * call.deposits[2]
    /\ total_share = response.share

\* C3: withdraw_liquidity of amount against a supply T > 0 refunds
\* floor(reserve_i * r) of each asset, r = amount / T cut to the fixed-point
\* precision, in exactly two transfers to the sender followed by one burn of
\* amount; for amount <= T a refund is at most reserve_i * amount / T and at
\* most reserve_i.
C3_WithdrawRefunds ==
    [][ (Handled("withdraw_liquidity") /\ total_share > 0)
        => LET amount == call'.amount
               r == (amount * DECIMAL_FRACTIONAL) \div total_share
               refund == [i \in 1..2 |->
                            (balances[i] * r) \div DECIMAL_FRACTIONAL]
               msgs == response'.messages
           IN  /\ response'.refund_assets = <<refund[1], refund[2]>>
               /\ Len(msgs) = 3
               /\ \A i \in 1..2 :
                     /\ msgs[i].kind = "transfer" /\ msgs[i].asset = i
                     /\ msgs[i].to = call'.from /\ msgs[i].amount = refund[i]
               /\ msgs[3].kind = "burn" /\ msgs[3].amount = amount
               /\ amount <= total_share
                    => \A i \in 1..2 :
                          /\ refund[i] * total_share <= balances[i] * amount
                          /\ refund[i] <= balances[i]
               /\ balances' = [i \in 1..2 |-> balances[i] - refund[i]]
               /\ total_share' = total_share - amount ]_vars

\* A part of the supply has been withdrawn and a refund was rounded down.
C3_Witness ==
    /\ call.msg = "withdraw_liquidity" /\ response.err = "ok"
    /\ total_share > 0
    /\ \E i \in 1..2 :
          /\ response.refund_assets[i] > 0
          /\ response.refund_assets[i] * (total_share + call.amount)
                < (balances[i] + response.refund_assets[i]) * call.amount

\* A step that withdraws exactly the share the preceding call, a successful
\* provide_liquidity, minted.
RoundTrip ==
    /\ call.msg = "provide_liquidity" /\ response.err = "ok"
    /\ Handled("withdraw_liquidity")
    /\ call'.amount = response.share

\* C4 as stated: the round trip refunds at most the deposit, and exactly the
\* deposit when the LP supply was 0 before the deposit.
C4_RoundTripAsStated ==
    [][ RoundTrip
        => LET d == call.deposits
               r == response'.refund_assets
           IN  /\ r[1] <= d[1] /\ r[2] <= d[2]
               /\ total_share = response.share => r = d ]_vars

\* C4: the round trip refunds at most the deposit when the LP supply was
\* positive before the deposit; when the supply was 0 it refunds every
\* reserve of the pair, which is exactly the deposit when the pair held
\* nothing before it and more when it held assets sent to it directly.
C4_RoundTrip ==
    [][ RoundTrip
        => LET d == call.deposits
               r == response'.refund_assets
           IN  /\ total_share > response.share
                    => r[1] <= d[1] /\ r[2] <= d[2]
               /\ total_share = response.share
                    => /\ r = balances
                       /\ r[1] >= d[1] /\ r[2] >= d[2]
                       /\ balances = d => r = d ]_vars

\* A first deposit into a pair holding nothing has been withdrawn again.
C4_Witness ==
    /\ call.msg = "withdraw_liquidity" /\ response.err = "ok"
    /\ tx_count = 2 /\ total_share = 0 /\ balances = <<0, 0>>
    /\ response.refund_assets[1] > 0

\* A deposit of (200, 100) into reserves (100, 100) minted 100 shares, which
\* were withdrawn again for (150, 100).
C4_WitnessLater ==
    /\ call.msg = "withdraw_liquidity" /\ response.err = "ok"
    /\ tx_count = 3 /\ call.amount = 100
    /\ response.refund_assets = <<150, 100>>
    /\ balances = <<150, 100>> /\ total_share = 100

\* C9: price0_cumulative_last and price1_cumulative_last change in a step
\* only if the step is a successful call in a block later than
\* block_time_last and both reserves handed to accumulate_prices are nonzero;
\* any other step leaves both unchanged.
C9_AccumulatorsChangeOnlyOnTime ==
    [][ (config'.price0_cumulative_last # config.price0_cumulative_last
            \/ config'.price1_cumulative_last # config.price1_cumulative_last)
        => /\ tx_count' = tx_count + 1
           /\ call'.msg \in {"provide_liquidity", "withdraw_liquidity", "swap"}
           /\ response'.err = "ok"
           /\ block_time > config.block_time_last
           /\ response'.pools[1] # 0 /\ response'.pools[2] # 0 ]_vars

\* Both accumulators have advanced.
C9_Witness ==
    /\ config.price0_cumulative_last > 0
    /\ config.price1_cumulative_last > 0
    /\ config.block_time_last = block_time


----------------------------------------------------------------------------
(* Specification SpecSwap: compute_swap and compute_offer_amount applied   *)
(* to drawn arguments.  The reserves and amounts are the small ones, one   *)
(* unit of the fixed-point scale, where the scale's truncation shows, and  *)
(* reserves some thousand times the other, where a price truncates.        *)

SwapPools ==
    (0 .. MaxAmount)
      \cup {DECIMAL_FRACTIONAL, 3 * DECIMAL_FRACTIONAL, 4 * DECIMAL_FRACTIONAL,
            6 * DECIMAL_FRACTIONAL - 1}
SwapRates == {0, Rate(3, 1000), Rate(1, 2), DECIMAL_FRACTIONAL}

InitSwap ==
    /\ InitPair
    /\ InitTokenomics
    /\ call \in [fn : {"compute_swap", "compute_offer_amount"},
                 offer_pool : SwapPools, ask_pool : SwapPools,
                 amount : SwapPools, commission_rate : SwapRates]
    /\ response = NoResponse

ApplyComputeSwap ==
    /\ call.fn = "compute_swap"
    /\ response = NoResponse
    /\ response' = compute_swap(call.offer_pool, call.ask_pool,
                                call.amount, call.commission_rate)
    /\ UNCHANGED <<asset_infos, balances, total_share, config, block_time,
                   tx_count, call, tokenomics>>

\* The reverse quote, and the swap of the amount it quoted.
ApplyComputeOfferAmount ==
    /\ call.fn = "compute_offer_amount"
    /\ response = NoResponse
    /\ LET q == compute_offer_amount(call.offer_pool, call.ask_pool,
                                     call.amount, call.commission_rate)
       IN  response' =
             IF q.err # "ok" THEN [err |-> q.err]
             ELSE [err |-> "ok", offer_amount |-> q.offer_amount,
                   spread_amount |-> q.spread_amount,
                   commission_amount |-> q.commission_amount,
                   swap |-> compute_swap(call.offer_pool, call.ask_pool,
                                         q.offer_amount, call.commission_rate)]
    /\ UNCHANGED <<asset_infos, balances, total_share, config, block_time,
                   tx_count, call, tokenomics>>

NextSwap == ApplyComputeSwap \/ ApplyComputeOfferAmount

SpecSwap == InitSwap /\ [][NextSwap]_vars

\* The exact ceiling of a / b.
CeilDiv(a, b) == (a + b - 1) \div b

\* C5: for offer_pool > 0 and commission_rate <= 1 compute_swap returns, with
\* pre = ask_pool - ceil(offer_pool * ask_pool / (offer_pool + offer_amount))
\* over the exact quotient, commission_amount = floor(pre * commission_rate)
\* and return_amount = pre - commission_amount.
C5_ReferenceTriple ==
    (call.fn = "compute_swap" /\ response # NoResponse
        /\ call.offer_pool > 0 /\ call.commission_rate <= DECIMAL_FRACTIONAL)
    => LET pre == call.ask_pool
                    - CeilDiv(call.offer_pool * call.ask_pool,
                              call.offer_pool + call.amount)
           commission == (pre * call.commission_rate) \div DECIMAL_FRACTIONAL
       IN  /\ response.err = "ok"
           /\ response.commission_amount = commission
           /\ response.return_amount = pre - commission

\* C6: whenever compute_offer_amount succeeds and quotes o, compute_swap of o
\* on the same reserves and rate returns at least ask_amount.
C6_OfferIsInverse ==
    (call.fn = "compute_offer_amount" /\ response # NoResponse
        /\ response.err = "ok")
    => /\ response.swap.err = "ok"
       /\ response.swap.return_amount >= call.amount

----------------------------------------------------------------------------
(* Specification SpecSpread: assert_max_spread applied to drawn arguments. *)

SpreadAmounts == (0 .. MaxAmount) \cup {DECIMAL_FRACTIONAL}
BeliefPrices == {0, Rate(1, 2), Rate(1, 1), Rate(3, 1)}
Tolerances == {None, Some(0), Some(MAX_ALLOWED_SLIPPAGE),
               Some(MAX_ALLOWED_SLIPPAGE + 1)}

InitSpread ==
    /\ InitPair
    /\ InitTokenomics
    /\ call \in [fn : {"assert_max_spread"},
                 belief_price : {None} \cup {Some(b) : b \in BeliefPrices},
                 max_spread : Tolerances,
                 offer_amount : SpreadAmounts, return_amount : SpreadAmounts,
                 spread_amount : SpreadAmounts]
    /\ response = NoResponse

ApplyAssertMaxSpread ==
    /\ call.fn = "assert_max_spread"
    /\ response = NoResponse
    /\ response' = [err |-> assert_max_spread(call.belief_price, call.max_spread,
                                call.offer_amount, call.return_amount,
                                call.spread_amount)]
    /\ UNCHANGED <<asset_infos, balances, total_share, config, block_time,
                   tx_count, call, tokenomics>>

NextSpread == ApplyAssertMaxSpread

SpecSpread == InitSpread /\ [][NextSpread]_vars

SpreadDecided == call.fn = "assert_max_spread" /\ response # NoResponse

----------------------------------------------------------------------------
(* Specification SpecSlippage: assert_slippage_tolerance applied to drawn  *)
(* deposits and reserves of a pool with a positive LP supply, and to the   *)
(* same with the two assets exchanged.                                     *)

SlippageDeposits == 1 .. MaxAmount
SlippagePools == (1 .. MaxAmount) \cup {DECIMAL_FRACTIONAL \div 3,
                                        DECIMAL_FRACTIONAL}

InitSlippage ==
    /\ InitPair
    /\ InitTokenomics
    /\ call \in [fn : {"assert_slippage_tolerance"},
                 slippage_tolerance : Tolerances,
                 deposits : SlippageDeposits \X SlippageDeposits,
                 pools : SlippagePools \X SlippagePools]
    /\ response = NoResponse

Exchanged(pair) == <<pair[2], pair[1]>>

ApplyAssertSlippageTolerance ==
    /\ call.fn = "assert_slippage_tolerance"
    /\ response = NoResponse
    /\ response' =
         [err |-> assert_slippage_tolerance(call.slippage_tolerance,
                                            call.deposits, call.pools),
          exchanged |-> assert_slippage_tolerance(call.slippage_tolerance,
                                                  Exchanged(call.deposits),
                                                  Exchanged(call.pools))]
    /\ UNCHANGED <<asset_infos, balances, total_share, config, block_time,
                   tx_count, call, tokenomics>>

NextSlippage == ApplyAssertSlippageTolerance

SpecSlippage == InitSlippage /\ [][NextSlippage]_vars

SlippageDecided ==
    /\ call.fn = "assert_slippage_tolerance" /\ response # NoResponse
    /\ unwrap_or(call.slippage_tolerance, DEFAULT_SLIPPAGE)
          <= MAX_ALLOWED_SLIPPAGE

\* C8 as stated, over exact ratios: the deposit fails with
\* MaxSlippageAssertion iff (d0/d1) * (1 - tol) > p0/p1 or (d1/d0) *
\* (1 - tol) > p1/p0, and is accepted otherwise; the answer is the same with
\* the assets exchanged; a deposit in exactly the reserve ratio is accepted.
C8_ExactDecision ==
    SlippageDecided
    => LET tol == unwrap_or(call.slippage_tolerance, DEFAULT_SLIPPAGE)
           d == call.deposits
           q == call.pools
           om == DECIMAL_FRACTIONAL - tol
       IN  /\ response.err =
                IF \/ d[1] * om * q[2] > q[1] * d[2] * DECIMAL_FRACTIONAL
                   \/ d[2] * om * q[1] > q[2] * d[1] * DECIMAL_FRACTIONAL
                THEN "MaxSlippageAssertion" ELSE "ok"
           /\ response.exchanged = response.err
           /\ d[1] * q[2] = d[2] * q[1] => response.err = "ok"

\* The truncated comparison of one direction: t(t(a / b) * (1 - tol)) against
\* t(p / q), t the truncation to the fixed-point precision.
TruncatedExceeds(a, b, om, p, q) ==
    (((a * DECIMAL_FRACTIONAL) \div b) * om) \div DECIMAL_FRACTIONAL
        > (p * DECIMAL_FRACTIONAL) \div q

\* C8: the deposit fails with MaxSlippageAssertion iff t(t(d0/d1) * (1 - tol))
\* > t(p0/p1) or t(t(d1/d0) * (1 - tol)) > t(p1/p0), t the truncation to the
\* fixed-point precision, and is accepted otherwise; a rejected deposit
\* satisfies the exact inequality; the answer is the same with the assets
\* exchanged; a deposit in exactly the reserve ratio is accepted.
C8_TruncatedDecision ==
    SlippageDecided
    => LET tol == unwrap_or(call.slippage_tolerance, DEFAULT_SLIPPAGE)
           d == call.deposits
           q == call.pools
           om == DECIMAL_FRACTIONAL - tol
       IN  /\ response.err =
                IF \/ TruncatedExceeds(d[1], d[2], om, q[1], q[2])
                   \/ TruncatedExceeds(d[2], d[1], om, q[2], q[1])
                THEN "MaxSlippageAssertion" ELSE "ok"
           /\ response.err = "MaxSlippageAssertion"
                => \/ d[1] * om * q[2] > q[1] * d[2] * DECIMAL_FRACTIONAL
                   \/ d[2] * om * q[1] > q[2] * d[1] * DECIMAL_FRACTIONAL
           /\ response.exchanged = response.err
           /\ d[1] * q[2] = d[2] * q[1] => response.err = "ok"

\* A deposit over the reserve ratio in the second direction only was
\* rejected, in both orders of the assets.
C8_Witness ==
    /\ SlippageDecided
    /\ call.deposits = <<1, 3>> /\ call.pools = <<2, 1>>
    /\ response.err = "MaxSlippageAssertion"
    /\ response.exchanged = "MaxSlippageAssertion"

----------------------------------------------------------------------------
(* Specification SpecOracle: accumulate_prices applied to a drawn Config,  *)
(* block time and reserves.                                                *)

OracleTimes == 0 .. MaxBlockTime
OraclePrices == {0, 1, MaxUint128 - 1, MaxUint128}
OracleReserves == {0, 1, 2, 3, DECIMAL_FRACTIONAL, MaxUint128}

InitOracle ==
    /\ InitPair
    /\ InitTokenomics
    /\ call \in [fn : {"accumulate_prices"}, now : OracleTimes,
                 config : [block_time_last : OracleTimes,
                           price0_cumulative_last : OraclePrices,
                           price1_cumulative_last : OraclePrices],
                 x : OracleReserves, y : OracleReserves]
    /\ response = NoResponse

ApplyAccumulatePrices ==
    /\ call.fn = "accumulate_prices"
    /\ response = NoResponse
    /\ response' = accumulate_prices(call.now, call.config, call.x, call.y)
    /\ UNCHANGED <<asset_infos, balances, total_share, config, block_time,
                   tx_count, call, tokenomics>>

NextOracle == ApplyAccumulatePrices

SpecOracle == InitOracle /\ [][NextOracle]_vars

\* C10: when now > block_time_last and both reserves are nonzero,
\* accumulate_prices yields price0 = (old0 + floor((now - last) *
\* 10^TWAP_PRECISION * y / x)) mod 2^128, price1 = (old1 + floor((now - last)
\* * 10^TWAP_PRECISION * x / y)) mod 2^128 and block_time_last = now; the
\* addition wraps instead of failing.
C10_AccumulatedPrices ==
    (call.fn = "accumulate_prices" /\ response # NoResponse
        /\ call.now > call.config.block_time_last
        /\ call.x # 0 /\ call.y # 0)
    => LET scaled == (call.now - call.config.block_time_last)
                        * 10 ^ TwapPrecision
       IN  /\ response.err = "ok"
           /\ response.some
           /\ response.pcl0 =
                (call.config.price0_cumulative_last
                    + (scaled * call.y) \div call.x) % 2 ^ Uint128Bits
           /\ response.pcl1 =
                (call.config.price1_cumulative_last
                    + (scaled * call.x) \div call.y) % 2 ^ Uint128Bits
           /\ response.block_time = call.now

----------------------------------------------------------------------------
(* The staking contract (contracts/tokenomics/staking/src/contract.rs).    *)
(* It keeps no ledger of its own: every call queries the ASTRO it holds    *)
(* and the xASTRO supply.  Both tokens are cw20 contracts whose Send moves *)
(* the amount to the staking contract and then calls its Receive hook, so  *)
(* the hook sees a balance that already includes what was sent.            *)

MaxStakingCalls == 4

AstroToken == "astro_token"
XAstroToken == "xastro_token"
OtherToken == "other_token"

\* Uint128::checked_mul.
Uint128_checked_mul(a, b) == IF a * b > MaxUint128 THEN Err ELSE a * b

\* The amount staking mints for a deposit, rounding the quotient up.
enter_mint_amount_ceil(amount, total_deposit, total_shares) ==
    IF total_shares = 0 \/ total_deposit = 0 THEN amount
    ELSE IF Uint128_checked_mul(amount, total_shares) = Err THEN Err
    ELSE (amount * total_shares + total_deposit - 1) \div total_deposit

\* The Enter arm's mint_amount; total_deposit is already net of the deposit.
enter_mint_amount(amount, total_deposit, total_shares) ==
    IF total_shares = 0 \/ total_deposit = 0 THEN amount
    ELSE IF Uint128_checked_mul(amount, total_shares) = Err THEN Err
    ELSE Uint128_checked_mul(amount, total_shares) \div total_deposit

enter_response(recipient, mint_amount) ==
    IF mint_amount = Err THEN Failed("Overflow")
    ELSE [err |-> "ok",
          messages |-> <<[kind |-> "mint", recipient |-> recipient,
                          amount |-> mint_amount]>>]

\* The Leave arm's payout, rounded up.
leave_what_ceil(amount, total_deposit, total_shares) ==
    IF Uint128_checked_mul(amount, total_deposit) = Err THEN [err |-> "Overflow"]
    ELSE IF total_shares = 0 THEN [err |-> "DivideByZero"]
    ELSE [err |-> "ok",
          what |-> (amount * total_deposit + total_shares - 1) \div total_shares]

\* The Leave arm's payout, paying one ASTRO for every share.
leave_what_one_for_one(amount, total_deposit, total_shares) ==
    IF Uint128_checked_mul(amount, total_deposit) = Err THEN [err |-> "Overflow"]
    ELSE IF total_shares = 0 THEN [err |-> "DivideByZero"]
    ELSE [err |-> "ok", what |-> amount]

\* The Leave arm's `what`: checked_mul, then checked_div.
leave_what(amount, total_deposit, total_shares) ==
    IF Uint128_checked_mul(amount, total_deposit) = Err THEN [err |-> "Overflow"]
    ELSE IF total_shares = 0 THEN [err |-> "DivideByZero"]
    ELSE [err |-> "ok",
          what |-> Uint128_checked_mul(amount, total_deposit) \div total_shares]

leave_response(recipient, amount, w) ==
    IF w.err # "ok" THEN Failed(w.err)
    ELSE [err |-> "ok",
          messages |-> <<[kind |-> "burn", amount |-> amount],
                         [kind |-> "transfer", recipient |-> recipient,
                          amount |-> w.what]>>]

\* get_total_deposit and get_total_shares: the live queries.
get_total_deposit(queried) == queried.total_deposit
get_total_shares(queried) == queried.total_shares

\* receive_cw20 accepting a hook from any caller.
staking_receive_cw20_unauthenticated(c, total_deposit, total_shares) ==
    IF c.hook = "enter"
    THEN IF c.amount > total_deposit THEN Failed("Overflow")
         ELSE enter_response(c.from, enter_mint_amount(c.amount,
                                 total_deposit - c.amount, total_shares))
    ELSE leave_response(c.from, c.amount,
                        leave_what(c.amount, total_deposit, total_shares))

\* receive_cw20: c.sender is info.sender, c.from is cw20_msg.sender and
\* c.amount is cw20_msg.amount.  `total_deposit -= amount` panics when the
\* amount exceeds the queried balance.
staking_receive_cw20(c, total_deposit, total_shares) ==
    IF c.hook = "enter"
    THEN IF c.sender # AstroToken THEN Failed("Unauthorized")
         ELSE IF c.amount > total_deposit THEN Failed("Overflow")
         ELSE enter_response(c.from, enter_mint_amount(c.amount,
                                 total_deposit - c.amount, total_shares))
    ELSE IF c.sender # XAstroToken THEN Failed("Unauthorized")
         ELSE leave_response(c.from, c.amount,
                             leave_what(c.amount, total_deposit, total_shares))

\* The staking execute entry point: ExecuteMsg::Receive is its only message.
staking_execute(c, queried) ==
    staking_receive_cw20(c, get_total_deposit(queried), get_total_shares(queried))

\* The host runs the messages of a staking response on the token ledgers:
\* a mint raises the xASTRO supply, a burn lowers it, a transfer pays ASTRO
\* out of the staking contract.
StakingApplyMessage(st, m) ==
    IF st.err # "ok" THEN st
    ELSE IF m.kind = "mint"
    THEN IF st.total_shares + m.amount > MaxUint128
         THEN [st EXCEPT !.err = "SubMsgFailed"]
         ELSE [st EXCEPT !.total_shares = @ + m.amount]
    ELSE IF m.kind = "burn"
    THEN IF m.amount > st.total_shares THEN [st EXCEPT !.err = "SubMsgFailed"]
         ELSE [st EXCEPT !.total_shares = @ - m.amount]
    ELSE IF m.amount > st.total_deposit THEN [st EXCEPT !.err = "SubMsgFailed"]
         ELSE [st EXCEPT !.total_deposit = @ - m.amount]

RECURSIVE StakingApplyMessages(_, _)
StakingApplyMessages(st, msgs) ==
    IF msgs = <<>> THEN st
    ELSE StakingApplyMessages(StakingApplyMessage(st, Head(msgs)), Tail(msgs))

\* The end of a staking transaction: all of it is committed, or none.
StakingCommit(c, r, st) ==
    /\ call' = c
    /\ IF st.err = "ok"
       THEN /\ response' = r
            /\ staking' = [total_deposit |-> st.total_deposit,
                           total_shares |-> st.total_shares]
       ELSE /\ response' = Failed(st.err)
            /\ UNCHANGED staking
    /\ tx_count' = tx_count + 1

StakingDispatch(c, r, queried) ==
    StakingCommit(c, r, IF r.err # "ok" THEN [err |-> r.err]
                        ELSE StakingApplyMessages(
                                 [err |-> "ok",
                                  total_deposit |-> queried.total_deposit,
                                  total_shares |-> queried.total_shares],
                                 r.messages))

\* What the hook's queries answer: an ASTRO Send has already credited the
\* staking contract with the amount; any other call leaves its balance.
StakingQueried(c) ==
    [total_deposit |-> IF c.sender = AstroToken
                       THEN staking.total_deposit + c.amount
                       ELSE staking.total_deposit,
     total_shares |-> staking.total_shares]

StakingTransaction(c) ==
    /\ StakingQueried(c).total_deposit <= MaxUint128
    /\ StakingDispatch(c, staking_execute(c, StakingQueried(c)), StakingQueried(c))

StakingCall(sender, hook, amount) ==
    [msg |-> "receive", hook |-> hook, sender |-> sender, from |-> User,
     amount |-> amount]

pairIdle == <<asset_infos, balances, total_share, config, block_time>>
makerIdle == <<factory, bridges, maker>>

StakeAmounts == {0, 5, 10, 30, 200}

\* A holder sends ASTRO to the staking contract with the Enter hook.
Enter ==
    /\ tx_count < MaxStakingCalls
    /\ \E a \in StakeAmounts : StakingTransaction(StakingCall(AstroToken, "enter", a))
    /\ UNCHANGED <<pairIdle, makerIdle>>

\* A holder sends xASTRO, of which it cannot hold more than the supply.
Leave ==
    /\ tx_count < MaxStakingCalls
    /\ \E a \in StakeAmounts :
          /\ a <= staking.total_shares
          /\ StakingTransaction(StakingCall(XAstroToken, "leave", a))
    /\ UNCHANGED <<pairIdle, makerIdle>>

\* A hook that does not come from its token: the other staking token,
\* another cw20 token, or an account calling Receive itself.
ForeignHook ==
    /\ tx_count < MaxStakingCalls
    /\ \E s \in {AstroToken, XAstroToken, OtherToken, User}, a \in {0, 5} :
       \E h \in {"enter", "leave"} :
          /\ ~(s = AstroToken /\ h = "enter")
          /\ ~(s = XAstroToken /\ h = "leave")
          /\ s = XAstroToken => a <= staking.total_shares
          /\ StakingTransaction(StakingCall(s, h, a))
    /\ UNCHANGED <<pairIdle, makerIdle>>

\* Another account transfers ASTRO to the staking contract.
StakingDonate ==
    /\ tx_count < MaxStakingCalls
    /\ staking.total_deposit + 20 <= MaxUint128
    /\ staking' = [staking EXCEPT !.total_deposit = @ + 20]
    /\ call' = [msg |-> "transfer", amount |-> 20]
    /\ response' = [err |-> "ok", messages |-> <<>>]
    /\ tx_count' = tx_count + 1
    /\ UNCHANGED <<pairIdle, makerIdle>>

InitSpecStaking ==
    /\ InitPair
    /\ InitStaking
    /\ factory = {}
    /\ InitMaker
    /\ call = NoCall
    /\ response = NoResponse

NextStaking == Enter \/ Leave \/ ForeignHook \/ StakingDonate

SpecStaking == InitSpecStaking /\ [][NextStaking]_vars

\* C11: an accepted Enter(amount) mints `amount` shares when no share is
\* outstanding or the deposit held before this deposit is zero, and
\* otherwise floor(amount * total_shares / deposit before this deposit);
\* the xASTRO supply grows by exactly that.  The only failure of an Enter
\* from the ASTRO token is an amount * total_shares (or a supply) that the
\* amount width cannot hold.
EnterStep == call'.msg = "receive" /\ call'.hook = "enter" /\ call'.sender = AstroToken /\ tx_count' = tx_count + 1

EnterShares(amount) ==
    IF staking.total_shares = 0 \/ staking.total_deposit = 0 THEN amount
    ELSE (amount * staking.total_shares) \div staking.total_deposit

C11_EnterMintsFloor ==
    [][EnterStep =>
         IF response'.err = "ok"
         THEN /\ response'.messages = <<[kind |-> "mint", recipient |-> call'.from,
                                         amount |-> EnterShares(call'.amount)]>>
              /\ EnterShares(call'.amount) * staking.total_deposit
                     <= call'.amount * staking.total_shares
                 \/ staking.total_shares = 0 \/ staking.total_deposit = 0
              /\ staking'.total_shares = staking.total_shares + EnterShares(call'.amount)
              /\ staking'.total_deposit = staking.total_deposit + call'.amount
         ELSE /\ response'.err \in {"Overflow", "SubMsgFailed"}
              /\ call'.amount * staking.total_shares > MaxUint128
                 \/ staking.total_shares + EnterShares(call'.amount) > MaxUint128
              /\ staking' = staking]_vars

\* 30 shares outstanding, 50 deposited: Enter(10) has minted 6.
C11_Witness ==
    /\ call.msg = "receive" /\ call.hook = "enter" /\ call.amount = 10
    /\ response.err = "ok"
    /\ response.messages[1].amount = 6
    /\ staking = [total_deposit |-> 60, total_shares |-> 36]

\* C12: an accepted Leave(amount) burns `amount` shares and transfers
\* floor(amount * total_deposit / total_shares) ASTRO to the sender, and the
\* two ledgers move by exactly that; with total_shares = 0 it fails with
\* DivideByZero and nothing is burned or transferred.  The only other
\* failure of a Leave from the xASTRO token is an amount * total_deposit
\* that the amount width cannot hold.
LeaveStep == call'.msg = "receive" /\ call'.hook = "leave" /\ call'.sender = XAstroToken /\ tx_count' = tx_count + 1

LeavePayout(amount) == (amount * staking.total_deposit) \div staking.total_shares

C12_LeavePaysFloor ==
    [][LeaveStep =>
         IF staking.total_shares = 0
         THEN /\ response' = [err |-> "DivideByZero", messages |-> <<>>]
              /\ staking' = staking
         ELSE IF response'.err = "ok"
         THEN /\ response'.messages =
                    <<[kind |-> "burn", amount |-> call'.amount],
                      [kind |-> "transfer", recipient |-> call'.from,
                       amount |-> LeavePayout(call'.amount)]>>
              /\ staking'.total_shares = staking.total_shares - call'.amount
              /\ staking'.total_deposit =
                    staking.total_deposit - LeavePayout(call'.amount)
         ELSE /\ response' = [err |-> "Overflow", messages |-> <<>>]
              /\ call'.amount * staking.total_deposit > MaxUint128
              /\ staking' = staking]_vars

\* 36 shares outstanding, 60 deposited: Leave(5) has paid 8.
C12_Witness ==
    /\ call.msg = "receive" /\ call.hook = "leave" /\ call.amount = 5
    /\ response.err = "ok"
    /\ response.messages[2].amount = 8
    /\ staking = [total_deposit |-> 52, total_shares |-> 31]

\* A Leave with no share outstanding has failed on the division.
C12_WitnessDivideByZero ==
    /\ call.msg = "receive" /\ call.hook = "leave" /\ call.sender = XAstroToken
    /\ response.err = "DivideByZero"

----------------------------------------------------------------------------
(* Specification SpecHooks: the cw20 Receive hooks of the staking contract *)
(* and of the pair, called by the tokens they are configured with and by   *)
(* every other kind of caller.                                             *)

HookSenders == {TokenAddr(1), TokenAddr(2), LpToken, OtherToken, User}

\* Liquidity for the pair, so that its hooks have something to act on.
HookProvide ==
    /\ tx_count < MaxStakingCalls
    /\ Transaction(ProvideCall(100, 100, None))

\* A cw20 Send to the pair carrying Cw20HookMsg::Swap: the pair takes the
\* offered asset to be the token that called it.
PairSwapHook ==
    /\ tx_count < MaxStakingCalls
    /\ \E s \in HookSenders, f \in FeeInfos :
          Transaction([SwapCall(2, 1, None, Some(MAX_ALLOWED_SLIPPAGE), f)
                           EXCEPT !.sender = s])

\* A cw20 Send to the pair carrying Cw20HookMsg::WithdrawLiquidity.
PairWithdrawHook ==
    /\ tx_count < MaxStakingCalls
    /\ \E s \in HookSenders :
          /\ s = LpToken => 1 <= total_share
          /\ Transaction(WithdrawCall(s, 1))

InitHooks == InitSpecStaking

NextHooks ==
    Enter \/ Leave \/ ForeignHook \/ HookProvide \/ PairSwapHook \/ PairWithdrawHook

SpecHooks == InitHooks /\ [][NextHooks]_vars

\* What a rejected call leaves alone: everything but the record of the call.
NothingChanged ==
    /\ staking' = staking
    /\ balances' = balances
    /\ total_share' = total_share
    /\ config' = config
    /\ UNCHANGED <<asset_infos, factory, bridges, maker>>

Rejected == response' = [err |-> "Unauthorized", messages |-> <<>>] /\ NothingChanged

\* The calling contract is one of the pool's two assets, and a token.
IsPoolToken(s) == \E i \in 1..2 : asset_infos[i] = "token" /\ s = TokenAddr(i)

\* C13: every token-hook entry point authenticates the calling contract.
\* Staking answers an Enter that does not come from the ASTRO token, and a
\* Leave that does not come from the xASTRO token, with Unauthorized; the
\* pair answers a cw20-hook Swap that does not come from a token of the
\* pool, and a WithdrawLiquidity that does not come from the LP token, with
\* Unauthorized.  A rejected call emits no message and changes no state, and
\* no call from the right contract is answered with Unauthorized.
C13_HooksAuthenticate ==
    [][tx_count' = tx_count + 1 =>
         /\ (call'.msg = "receive" /\ call'.hook = "enter") =>
               (call'.sender # AstroToken <=> response'.err = "Unauthorized")
         /\ (call'.msg = "receive" /\ call'.hook = "leave") =>
               (call'.sender # XAstroToken <=> response'.err = "Unauthorized")
         /\ (call'.msg = "swap" /\ call'.via = "cw20") =>
               (~IsPoolToken(call'.sender) <=> response'.err = "Unauthorized")
         /\ call'.msg = "withdraw_liquidity" =>
               (call'.sender # LpToken <=> response'.err = "Unauthorized")
         /\ response'.err = "Unauthorized" => Rejected]_vars

\* The four rejections, each on a contract that has funds to lose.
C13_Witness ==
    /\ response.err = "Unauthorized"
    /\ call.msg = "receive" /\ call.hook = "leave" /\ call.sender = AstroToken
    /\ call.amount > 0
    /\ staking.total_deposit > 0 /\ staking.total_shares > 0

C13_WitnessEnter ==
    /\ response.err = "Unauthorized"
    /\ call.msg = "receive" /\ call.hook = "enter" /\ call.sender = XAstroToken
    /\ call.amount > 0

C13_WitnessSwap ==
    /\ response.err = "Unauthorized"
    /\ call.msg = "swap" /\ call.sender = TokenAddr(1)
    /\ balances[1] > 0 /\ balances[2] > 0

C13_WitnessWithdraw ==
    /\ response.err = "Unauthorized"
    /\ call.msg = "withdraw_liquidity" /\ call.sender = TokenAddr(2)
    /\ total_share > 0

----------------------------------------------------------------------------
(* The maker's fee routing (contracts/tokenomics/maker/src/utils.rs).  A   *)
(* fee token is swapped to ASTRO through its pool with ASTRO when the      *)
(* factory has one, and otherwise through the pool with its bridge token,  *)
(* whose own route is followed in the next step of the Collect.            *)

BRIDGES_INITIAL_DEPTH == 0
BRIDGES_MAX_DEPTH == 2
BRIDGES_EXECUTION_MAX_DEPTH == 3

Owner == "owner"

Pool(x, y) == {x, y}

BridgeOk == [err |-> "ok", info |-> <<>>]
BridgeErr(e, info) == [err |-> e, info |-> info]

\* get_pool: the factory's answer for the pair (from, to).
get_pool(reg, from, to) ==
    IF from # to /\ Pool(from, to) \in reg THEN BridgeOk
    ELSE BridgeErr("InvalidBridgeNoPool", <<from, to>>)

\* validate_bridge without the bound on the depth.
RECURSIVE validate_bridge_unbounded(_, _, _, _, _, _)
validate_bridge_unbounded(reg, b, from_token, bridge_token, astro_token, depth) ==
    IF get_pool(reg, from_token, bridge_token).err # "ok"
    THEN get_pool(reg, from_token, bridge_token)
    ELSE IF get_pool(reg, bridge_token, astro_token).err = "ok" THEN BridgeOk
    ELSE IF depth >= 2 * BRIDGES_MAX_DEPTH + 2 THEN BridgeOk
    ELSE IF bridge_token \notin DOMAIN b
    THEN BridgeErr("InvalidBridgeDestination", <<from_token>>)
    ELSE validate_bridge_unbounded(reg, b, bridge_token, b[bridge_token], astro_token, depth + 1)

\* validate_bridge over the registry reg and the stored bridges b.
RECURSIVE validate_bridge(_, _, _, _, _, _)
validate_bridge(reg, b, from_token, bridge_token, astro_token, depth) ==
    IF get_pool(reg, from_token, bridge_token).err # "ok"
    THEN get_pool(reg, from_token, bridge_token)
    ELSE IF get_pool(reg, bridge_token, astro_token).err = "ok" THEN BridgeOk
    ELSE IF depth >= BRIDGES_MAX_DEPTH THEN BridgeErr("MaxBridgeDepth", <<depth>>)
    ELSE IF bridge_token \notin DOMAIN b
    THEN BridgeErr("InvalidBridgeDestination", <<from_token>>)
    ELSE validate_bridge(reg, b, bridge_token, b[bridge_token], astro_token, depth + 1)

\* BRIDGES.save and BRIDGES.remove.
BridgesSave(b, k, v) == [t \in DOMAIN b \cup {k} |-> IF t = k THEN v ELSE b[t]]
BridgesRemove(b, k) == [t \in DOMAIN b \ {k} |-> b[t]]

RECURSIVE remove_bridges(_, _)
remove_bridges(b, remove) ==
    IF remove = <<>> THEN b
    ELSE remove_bridges(BridgesRemove(b, Head(remove)), Tail(remove))

\* The bridges of a request are validated and stored one after the other.
RECURSIVE add_bridges(_, _, _)
add_bridges(reg, b, add) ==
    IF add = <<>> THEN [err |-> "ok", info |-> <<>>, bridges |-> b]
    ELSE IF validate_bridge(reg, b, Head(add)[1], Head(add)[2], AstroToken,
                            BRIDGES_INITIAL_DEPTH).err # "ok"
    THEN [err |-> validate_bridge(reg, b, Head(add)[1], Head(add)[2], AstroToken,
                                  BRIDGES_INITIAL_DEPTH).err,
          info |-> validate_bridge(reg, b, Head(add)[1], Head(add)[2], AstroToken,
                                   BRIDGES_INITIAL_DEPTH).info,
          bridges |-> b]
    ELSE add_bridges(reg, BridgesSave(b, Head(add)[1], Head(add)[2]), Tail(add))

\* UpdateBridges: only the owner may call it; the edges to remove are
\* deleted, then the edges to add are validated and stored.
update_bridges(reg, b, c) ==
    IF c.sender # Owner THEN [err |-> "Unauthorized", info |-> <<>>, bridges |-> b]
    ELSE add_bridges(reg, remove_bridges(b, c.remove), c.add)

\* The fee tokens that are native coins; the others are cw20 tokens.
NativeTokens == {"a"}

\* Asset::compute_tax as the treasury answers it: one unit on any transfer.
compute_tax(from, amount) == IF from \in NativeTokens /\ amount > 0 THEN 1 ELSE 0

\* build_swap_msg: a native coin is offered net of its tax, with the funds
\* attached; a token is sent to the pool with the Swap hook.
build_swap_msg(pool, from, amount_in) ==
    IF from \in NativeTokens
    THEN IF compute_tax(from, amount_in) > amount_in THEN [err |-> "Overflow"]
         ELSE [err |-> "ok", kind |-> "swap", pool |-> pool, from |-> from,
               amount |-> amount_in - compute_tax(from, amount_in),
               tax |-> compute_tax(from, amount_in)]
    ELSE [err |-> "ok", kind |-> "send", pool |-> pool, from |-> from,
          amount |-> amount_in, tax |-> 0]

\* try_build_swap_msg: the pool of (from, to), then the message.
try_build_swap_msg(reg, from, to, amount_in) ==
    IF get_pool(reg, from, to).err # "ok" THEN [err |-> get_pool(reg, from, to).err]
    ELSE build_swap_msg(Pool(from, to), from, amount_in)

\* build_distribute_msg, always continuing with another SwapBridgeAssets.
build_distribute_msg_never_done(bridge_assets, depth) ==
    [msg |-> "swap_bridge_assets", assets |-> bridge_assets, depth |-> depth]

\* build_distribute_msg: the follow-up the maker sends to itself.
build_distribute_msg(bridge_assets, depth) ==
    IF bridge_assets # {}
    THEN [msg |-> "swap_bridge_assets", assets |-> bridge_assets, depth |-> depth]
    ELSE [msg |-> "distribute_astro", assets |-> {}, depth |-> depth]

\* Where a fee token is swapped to: ASTRO when it has a pool with ASTRO,
\* else its bridge token, else nowhere.
swap_target(reg, b, t) ==
    IF get_pool(reg, t, AstroToken).err = "ok" THEN [err |-> "ok", to |-> AstroToken]
    ELSE IF t \in DOMAIN b THEN [err |-> "ok", to |-> b[t]]
    ELSE [err |-> "CannotSwap"]

NoSwaps == [err |-> "ok", messages |-> <<>>, bridge_assets |-> {}]

\* One more swap in front of the swaps of the remaining assets.
swap_assets_push(to, msg, rest) ==
    IF msg.err # "ok" THEN [NoSwaps EXCEPT !.err = msg.err]
    ELSE IF rest.err # "ok" THEN rest
    ELSE [err |-> "ok",
          messages |-> <<msg>> \o rest.messages,
          bridge_assets |-> rest.bridge_assets
                               \cup (IF to = AstroToken THEN {} ELSE {to})]

\* The swaps of a list of assets: the whole balance of each asset that the
\* maker holds goes to its swap target.
RECURSIVE swap_assets(_, _, _, _)
swap_assets(reg, b, fees, assets) ==
    IF assets = <<>> THEN NoSwaps
    ELSE IF fees[Head(assets)] = 0 THEN swap_assets(reg, b, fees, Tail(assets))
    ELSE IF swap_target(reg, b, Head(assets)).err # "ok"
    THEN [NoSwaps EXCEPT !.err = swap_target(reg, b, Head(assets)).err]
    ELSE swap_assets_push(swap_target(reg, b, Head(assets)).to,
             try_build_swap_msg(reg, Head(assets),
                                swap_target(reg, b, Head(assets)).to,
                                fees[Head(assets)]),
             swap_assets(reg, b, fees, Tail(assets)))

\* The response of a step of the Collect: its swaps and its follow-up.
collect_response(sw, depth) ==
    IF sw.err # "ok" THEN [err |-> sw.err, messages |-> <<>>]
    ELSE [err |-> "ok", messages |-> sw.messages,
          followup |-> build_distribute_msg(sw.bridge_assets, depth)]

NoDuplicates(assets) ==
    \A i \in 1..Len(assets), j \in 1..Len(assets) : assets[i] = assets[j] => i = j

FeeAssets(assets) == SelectSeq(assets, LAMBDA t : t # AstroToken)

\* Collect: duplicates are rejected, every asset but ASTRO is swapped, and
\* the follow-up starts at the initial depth.
collect(reg, b, fees, assets) ==
    IF ~NoDuplicates(assets) THEN [err |-> "DuplicatedAsset", messages |-> <<>>]
    ELSE collect_response(swap_assets(reg, b, fees, FeeAssets(assets)),
                          BRIDGES_INITIAL_DEPTH)

\* The assets of a follow-up, in the order of FeeTokenSeq.
AssetSeq(assets) == SelectSeq(FeeTokenSeq, LAMBDA t : t \in assets)

\* SwapBridgeAssets without the limit on the execution depth.
swap_bridge_assets_unlimited(reg, b, fees, assets, depth) ==
    collect_response(swap_assets(reg, b, fees, AssetSeq(assets)), depth + 1)

\* SwapBridgeAssets: the maker's message to itself; it gives up at the
\* execution depth limit and otherwise swaps the bridge assets.
swap_bridge_assets(reg, b, fees, assets, depth) ==
    IF depth >= BRIDGES_EXECUTION_MAX_DEPTH
    THEN [err |-> "MaxBridgeDepth", messages |-> <<>>]
    ELSE collect_response(swap_assets(reg, b, fees, AssetSeq(assets)), depth + 1)

\* What a pool pays for an offer: the offer less one unit of commission.
PairReturn(amount) == IF amount > 0 THEN amount - 1 ELSE 0

\* The host runs a swap message: the maker's balance of the offered asset
\* falls by the offer and its tax, and the pool's return is credited.
MakerApplySwap(st, m) ==
    IF m.amount + m.tax > st.fees[m.from]
    THEN [st EXCEPT !.err = "SubMsgFailed"]
    ELSE IF AstroToken \in m.pool
    THEN [st EXCEPT !.fees[m.from] = @ - (m.amount + m.tax),
                    !.astro = @ + PairReturn(m.amount)]
    ELSE [fees |-> [t \in FeeTokens |->
                       IF t = m.from THEN st.fees[t] - (m.amount + m.tax)
                       ELSE IF t \in m.pool THEN st.fees[t] + PairReturn(m.amount)
                       ELSE st.fees[t]],
          astro |-> st.astro, err |-> st.err]

RECURSIVE MakerApplySwaps(_, _)
MakerApplySwaps(st, msgs) ==
    IF msgs = <<>> \/ st.err # "ok" THEN st
    ELSE MakerApplySwaps(MakerApplySwap(st, Head(msgs)), Tail(msgs))

----------------------------------------------------------------------------
(* The reward distribution that ends a Collect.  ASTRO held when rewards   *)
(* were enabled is released over pre_upgrade_blocks blocks; ASTRO collected*)
(* since is released at once.                                              *)

GovernancePercent == 10

NoDistribution(cfg) == [cfg |-> cfg, pre |-> 0, new |-> 0]

\* The pre-upgrade release of a distribution: every remaining unit at once.
preupgrade_distribution_all(cfg, elapsed) == cfg.remainder_reward

\* The pre-upgrade release of a distribution `elapsed` blocks after the last:
\* the per-block portion for each block, at most what remains.
preupgrade_distribution(cfg, elapsed) ==
    Min(cfg.remainder_reward,
        elapsed * (cfg.pre_upgrade_astro_amount \div cfg.pre_upgrade_blocks))

\* A distribution while pre-upgrade ASTRO remains: the release `pre` and all
\* the ASTRO collected since, which is the balance above the remainder.
distribute_vesting(cfg, height, pre) ==
    [cfg |-> [cfg EXCEPT !.remainder_reward = @ - pre,
                         !.last_distribution_block = height],
     pre |-> pre, new |-> cfg.astro - cfg.remainder_reward]

\* distribute running again in the block of the last distribution.
distribute_every_call(cfg, height) ==
    IF ~cfg.rewards_enabled THEN NoDistribution(cfg)
    ELSE IF cfg.remainder_reward > 0
    THEN distribute_vesting(cfg, height,
             preupgrade_distribution(cfg,
                 IF height = cfg.last_distribution_block THEN 1
                 ELSE height - cfg.last_distribution_block))
    ELSE [cfg |-> cfg, pre |-> 0, new |-> cfg.astro]

\* distribute: what a DistributeAstro at block `height` releases.
distribute(cfg, height) ==
    IF ~cfg.rewards_enabled THEN NoDistribution(cfg)
    ELSE IF cfg.remainder_reward > 0
    THEN IF height = cfg.last_distribution_block THEN NoDistribution(cfg)
         ELSE distribute_vesting(cfg, height,
                  preupgrade_distribution(cfg, height - cfg.last_distribution_block))
    ELSE [cfg |-> cfg, pre |-> 0, new |-> cfg.astro]

\* The governance share of a released amount; staking takes the rest.
GovernanceAmount(amount) == (amount * GovernancePercent) \div 100

\* The transfers of a distribution d, applied to the ASTRO balances.
DistributeTransfers(d) ==
    [d.cfg EXCEPT !.astro = @ - (d.pre + d.new),
                  !.governance = @ + GovernanceAmount(d.pre + d.new),
                  !.staking = @ + (d.pre + d.new) - GovernanceAmount(d.pre + d.new),
                  !.collect = NoCollect]

\* EnableRewards: the owner starts the release of the balance held now.
enable_rewards(cfg, c, height) ==
    IF c.sender # Owner THEN [err |-> "Unauthorized", cfg |-> cfg]
    ELSE IF cfg.rewards_enabled THEN [err |-> "RewardsAlreadyEnabled", cfg |-> cfg]
    ELSE IF c.blocks = 0 THEN [err |-> "NumberOfBlocksShouldBePositive", cfg |-> cfg]
    ELSE [err |-> "ok",
          cfg |-> [cfg EXCEPT !.rewards_enabled = TRUE,
                              !.pre_upgrade_astro_amount = cfg.astro,
                              !.remainder_reward = cfg.astro,
                              !.pre_upgrade_blocks = c.blocks,
                              !.last_distribution_block = height]]

----------------------------------------------------------------------------
(* The host running the maker.  A Collect is one transaction made of the   *)
(* Collect call, the swaps it sends, and the follow-up messages the maker  *)
(* sends to itself; every message is a SubMsg::new, without reply, so an   *)
(* error in any of them fails the transaction and what it did is undone.   *)

MakerAddr == "maker"
stakingIdle == <<asset_infos, balances, total_share, config, block_time, staking>>

\* The end of a step of the Collect: its swaps st are kept and its
\* follow-up is next, or the transaction fails as a whole.
CollectCommit(c, r, st, saved, hops) ==
    /\ call' = c
    /\ IF r.err = "ok" /\ st.err = "ok"
       THEN /\ response' = r
            /\ maker' = [maker EXCEPT !.fees = st.fees, !.astro = st.astro,
                             !.collect = [step |-> r.followup.msg,
                                          assets |-> r.followup.assets,
                                          depth |-> r.followup.depth,
                                          hops |-> hops, saved |-> saved]]
       ELSE /\ response' = Failed(IF r.err # "ok" THEN r.err ELSE st.err)
            /\ maker' = [maker EXCEPT !.fees = saved.fees, !.astro = saved.astro,
                             !.collect = NoCollect]
    /\ UNCHANGED <<stakingIdle, factory, bridges, tx_count>>

\* The swaps of the response r run, unless a pool refuses one (swaps_ok).
CollectDispatch(c, r, swaps_ok, saved, hops) ==
    /\ swaps_ok \/ (r.err = "ok" /\ r.messages # <<>>)
    /\ CollectCommit(c, r,
           IF r.err # "ok" THEN [err |-> r.err]
           ELSE IF ~swaps_ok THEN [err |-> "SwapFailed"]
           ELSE MakerApplySwaps([err |-> "ok", fees |-> maker.fees,
                                 astro |-> maker.astro], r.messages),
           saved, hops)

\* Anyone asks the maker to collect a list of assets.
Collect(requests) ==
    /\ maker.collect.step = "idle"
    /\ \E assets \in requests, swaps_ok \in BOOLEAN :
          CollectDispatch([msg |-> "collect", sender |-> User, assets |-> assets],
                          collect(factory, bridges, maker.fees, assets), swaps_ok,
                          [fees |-> maker.fees, astro |-> maker.astro], 1)

\* The host delivers the SwapBridgeAssets the maker sent to itself.
SwapBridgeAssets ==
    /\ maker.collect.step = "swap_bridge_assets"
    /\ \E swaps_ok \in BOOLEAN :
          CollectDispatch([msg |-> "swap_bridge_assets", sender |-> MakerAddr,
                           assets |-> maker.collect.assets,
                           depth |-> maker.collect.depth],
                          swap_bridge_assets(factory, bridges, maker.fees,
                              maker.collect.assets, maker.collect.depth),
                          swaps_ok, maker.collect.saved, maker.collect.hops + 1)

\* The host delivers the DistributeAstro that ends the Collect.
DistributeAstro ==
    /\ maker.collect.step = "distribute_astro"
    /\ call' = [msg |-> "distribute_astro", sender |-> MakerAddr]
    /\ response' = [err |-> "ok", messages |-> <<>>,
                    preupgrade_astro_distribution |-> distribute(maker, maker.height).pre,
                    astro_distribution |-> distribute(maker, maker.height).new]
    /\ maker' = DistributeTransfers(distribute(maker, maker.height))
    /\ UNCHANGED <<stakingIdle, factory, bridges, tx_count>>

\* UpdateBridges, between transactions.
UpdateBridges(requests) ==
    /\ maker.collect.step = "idle"
    /\ \E c \in requests :
          /\ call' = c
          /\ response' = [err |-> update_bridges(factory, bridges, c).err,
                          info |-> update_bridges(factory, bridges, c).info]
          /\ bridges' = IF update_bridges(factory, bridges, c).err = "ok"
                        THEN update_bridges(factory, bridges, c).bridges
                        ELSE bridges
    /\ UNCHANGED <<stakingIdle, factory, maker, tx_count>>

\* A pool pays its maker fee: FeeAmount of a fee token arrives.
MaxFeeDeposits == 1
FeeAmount == 6

ReceiveFees ==
    /\ maker.collect.step = "idle"
    /\ tx_count < MaxFeeDeposits
    /\ \E t \in FeeTokens :
          /\ maker' = [maker EXCEPT !.fees[t] = @ + FeeAmount]
          /\ call' = [msg |-> "transfer", asset |-> t, amount |-> FeeAmount]
    /\ response' = [err |-> "ok", messages |-> <<>>]
    /\ tx_count' = tx_count + 1
    /\ UNCHANGED <<stakingIdle, factory, bridges>>

----------------------------------------------------------------------------
(* Specification SpecBridges: the maker's owner (and others) updating the  *)
(* bridges, with a factory that has the pools a-b, b-c, c-d, d-e, b-e and  *)
(* e-ASTRO.                                                                *)

Registry ==
    {Pool("a", "b"), Pool("b", "c"), Pool("c", "d"), Pool("d", "e"),
     Pool("b", "e"), Pool("e", AstroToken)}

BridgeTokens == FeeTokens \cup {AstroToken}

UpdateBridgesCall(sender, add, remove) ==
    [msg |-> "update_bridges", sender |-> sender, add |-> add, remove |-> remove]

\* One bridge between two tokens that have a pool, or its removal.
RouteRequests ==
    {UpdateBridgesCall(Owner, <<p>>, <<>>) :
        p \in {q \in FeeTokens \X FeeTokens : Pool(q[1], q[2]) \in Registry}}
      \cup {UpdateBridgesCall(Owner, <<>>, <<t>>) : t \in FeeTokens}

\* One bridge at a time, every pair of distinct tokens; some requests of two
\* bridges; the removal of one bridge; a request that is not the owner's.
BridgeRequests ==
    {UpdateBridgesCall(Owner, <<p>>, <<>>) :
        p \in {q \in BridgeTokens \X BridgeTokens : q[1] # q[2]}}
      \cup {UpdateBridgesCall(Owner, add, <<>>) :
              add \in {<<<<"d", "e">>, <<"c", "d">>>>, <<<<"c", "d">>, <<"d", "e">>>>,
                       <<<<"b", "e">>, <<"a", "c">>>>}}
      \cup {UpdateBridgesCall(Owner, <<>>, <<t>>) : t \in FeeTokens}
      \cup {UpdateBridgesCall(User, <<<<"d", "e">>>>, <<>>)}

InitSpecMaker ==
    /\ InitPair
    /\ InitStaking
    /\ factory = Registry
    /\ InitMaker
    /\ call = NoCall
    /\ response = NoResponse

ConfigureBridges == UpdateBridges(BridgeRequests)

NextBridges == ConfigureBridges

SpecBridges == InitSpecMaker /\ [][NextBridges]_vars

----------------------------------------------------------------------------
(* Specification SpecMaker: the same maker and factory; the owner sets and *)
(* removes bridges along the pools, fees arrive and anyone collects them.  *)

CollectRequests ==
    {<<t>> : t \in BridgeTokens} \cup {<<"a", "b">>, <<"a", AstroToken, "a">>}

ConfigureRoutes == UpdateBridges(RouteRequests)
CollectFees == Collect(CollectRequests)

NextMaker ==
    ConfigureRoutes \/ ReceiveFees \/ CollectFees \/ SwapBridgeAssets \/ DistributeAstro

SpecMaker == InitSpecMaker /\ [][NextMaker]_vars

\* C14: a bridge whose chain to ASTRO exceeds BRIDGES_MAX_DEPTH is rejected
\* with MaxBridgeDepth when it is configured, so that no chain that was
\* accepted at configuration time is found to be too long at collection
\* time: every bridge in the map was accepted by validate_bridge, hence no
\* step of a Collect fails with MaxBridgeDepth.
C14_NoChainTooLongAtCollection ==
    ~(call.msg = "swap_bridge_assets" /\ response.err = "MaxBridgeDepth")

\* The route the claims describe: a pool for (from, to) and, from `to`,
\* a pool with ASTRO or a stored bridge that is such a route in turn, over
\* at most n further bridges.
RECURSIVE RouteValid(_, _, _)
RouteValid(from, to, n) ==
    /\ from # to /\ Pool(from, to) \in factory
    /\ \/ Pool(to, AstroToken) \in factory /\ to # AstroToken
       \/ /\ n > 0
          /\ to \in DOMAIN bridges
          /\ RouteValid(to, bridges[to], n - 1)

UpdateBridgesStep == call'.msg = "update_bridges" /\ call'.sender = Owner

AddOne(from, to) == call'.add = <<<<from, to>>>> /\ call'.remove = <<>>

\* C15: adding a bridge (from, to) succeeds only if the factory has a pool
\* for (from, to) and, from `to`, either a pool with ASTRO exists or the
\* stored next bridge validates recursively (within BRIDGES_MAX_DEPTH), and
\* then the bridge is stored; it fails with InvalidBridgeNoPool when the
\* (from, to) pool is missing and with InvalidBridgeDestination when `to`
\* has neither a pool with ASTRO nor a stored bridge; a failed update, of
\* one bridge or of several, leaves the bridge map exactly as it was.
C15_AddBridgeValidated ==
    [][UpdateBridgesStep =>
         /\ \A from \in BridgeTokens, to \in BridgeTokens :
               AddOne(from, to) =>
                  /\ response'.err = "ok" <=> RouteValid(from, to, BRIDGES_MAX_DEPTH)
                  /\ response'.err = "ok" => bridges' = BridgesSave(bridges, from, to)
                  /\ Pool(from, to) \notin factory =>
                        response' = [err |-> "InvalidBridgeNoPool", info |-> <<from, to>>]
                  /\ (/\ Pool(from, to) \in factory
                      /\ Pool(to, AstroToken) \notin factory
                      /\ to \notin DOMAIN bridges) =>
                        response' = [err |-> "InvalidBridgeDestination", info |-> <<from>>]
         /\ response'.err # "ok" => bridges' = bridges]_vars

\* A request of two bridges failed on the second, and the first, which was
\* valid, is not in the map.
C15_Witness ==
    /\ call.msg = "update_bridges" /\ call.sender = Owner
    /\ call.add = <<<<"b", "e">>, <<"a", "c">>>>
    /\ response = [err |-> "InvalidBridgeNoPool", info |-> <<"a", "c">>]
    /\ "b" \notin DOMAIN bridges

\* A bridge was refused for its destination, another was stored over a
\* route of the greatest depth, another refused for its depth.
C15_WitnessDestination ==
    /\ call.msg = "update_bridges"
    /\ response = [err |-> "InvalidBridgeDestination", info |-> <<"a">>]

C15_WitnessDeepest ==
    /\ call.msg = "update_bridges" /\ call.add = <<<<"b", "c">>>>
    /\ response.err = "ok"
    /\ bridges = [b |-> "c", c |-> "d", d |-> "e"]

C15_WitnessMaxDepth ==
    /\ call.msg = "update_bridges" /\ call.add = <<<<"a", "b">>>>
    /\ response = [err |-> "MaxBridgeDepth", info |-> <<BRIDGES_MAX_DEPTH>>]

\* A token with a pool with ASTRO, or with a chain of at most n bridges to one.
RECURSIVE ReachesAstroPool(_, _)
ReachesAstroPool(t, n) ==
    \/ Pool(t, AstroToken) \in factory /\ t # AstroToken
    \/ n > 0 /\ t \in DOMAIN bridges /\ ReachesAstroPool(bridges[t], n - 1)

\* C18: after any sequence of successful bridge additions and removals the
\* bridge map is well formed: following the bridges from any token that has
\* one reaches, within the bounded number of hops, a token with a pool with
\* ASTRO; no dangling edge, no cycle, no over-long chain.
C18_BridgeMapWellFormed ==
    \A t \in DOMAIN bridges : ReachesAstroPool(t, BRIDGES_EXECUTION_MAX_DEPTH)


----------------------------------------------------------------------------
(* Specification SpecRewards: ASTRO arrives at the maker, the owner (or    *)
(* someone else) enables the rewards, blocks pass, and anyone collects;    *)
(* every Collect ends with a DistributeAstro.                              *)

MaxHeight == 6
MaxAstroDeposits == 3
AstroAmounts == {7, 25}
RewardBlocks == {0, 3, 10}

\* EnableRewards { blocks }.
EnableRewards ==
    /\ maker.collect.step = "idle"
    /\ \E sender \in {Owner, User}, blocks \in RewardBlocks :
          /\ call' = [msg |-> "enable_rewards", sender |-> sender, blocks |-> blocks]
          /\ response' = [err |-> enable_rewards(maker, call', maker.height).err,
                          messages |-> <<>>]
          /\ maker' = enable_rewards(maker, call', maker.height).cfg
    /\ UNCHANGED <<stakingIdle, factory, bridges, tx_count>>

\* ASTRO arrives at the maker: fees of a pool with ASTRO, or a transfer.
AstroArrives ==
    /\ maker.collect.step = "idle"
    /\ tx_count < MaxAstroDeposits
    /\ \E amount \in AstroAmounts :
          /\ maker' = [maker EXCEPT !.astro = @ + amount]
          /\ call' = [msg |-> "transfer", asset |-> AstroToken, amount |-> amount]
    /\ response' = [err |-> "ok", messages |-> <<>>]
    /\ tx_count' = tx_count + 1
    /\ UNCHANGED <<stakingIdle, factory, bridges>>

\* The chain moves to the next block, between transactions.
NextBlock ==
    /\ maker.collect.step = "idle"
    /\ maker.height < MaxHeight
    /\ maker' = [maker EXCEPT !.height = @ + 1]
    /\ call' = [msg |-> "next_block"]
    /\ response' = [err |-> "ok", messages |-> <<>>]
    /\ UNCHANGED <<stakingIdle, factory, bridges, tx_count>>

CollectAstro == Collect({<<AstroToken>>})

NextRewards ==
    AstroArrives \/ EnableRewards \/ NextBlock \/ CollectAstro \/ DistributeAstro

SpecRewards == InitSpecMaker /\ [][NextRewards]_vars

\* A DistributeAstro step, seen from the state before it.
DistributeStep == call'.msg = "distribute_astro"

\* The ASTRO paid out by a step: what governance and staking receive.
PaidOut == (maker'.governance + maker'.staking) - (maker.governance + maker.staking)

\* C16: while remainder_reward > 0, a distribution run elapsed > 0 blocks
\* after last_distribution_block releases exactly
\* min(remainder_reward, elapsed * floor(pre_upgrade_amount / blocks)) of the
\* pre-upgrade balance, lowers remainder_reward by that amount and sets
\* last_distribution_block to the current block; the pre-upgrade amount
\* released in total (pre_upgrade_amount - remainder_reward) never exceeds
\* pre_upgrade_amount; and once remainder_reward is 0 a distribution releases
\* the newly collected amount only, in full.
C16_VestingRelease ==
    /\ [][(DistributeStep /\ maker.rewards_enabled) =>
            /\ (maker.remainder_reward > 0
                  /\ maker.height > maker.last_distribution_block) =>
                 /\ response'.preupgrade_astro_distribution =
                       Min(maker.remainder_reward,
                           (maker.height - maker.last_distribution_block)
                             * (maker.pre_upgrade_astro_amount
                                  \div maker.pre_upgrade_blocks))
                 /\ maker'.remainder_reward =
                       maker.remainder_reward
                         - response'.preupgrade_astro_distribution
                 /\ maker'.last_distribution_block = maker.height
                 /\ response'.astro_distribution =
                       maker.astro - maker.remainder_reward
                 /\ PaidOut = response'.preupgrade_astro_distribution
                                + response'.astro_distribution
                 /\ maker'.astro = maker'.remainder_reward
            /\ maker.remainder_reward = 0 =>
                 /\ response'.preupgrade_astro_distribution = 0
                 /\ response'.astro_distribution = maker.astro
                 /\ PaidOut = maker.astro
                 /\ maker'.astro = 0
                 /\ maker'.remainder_reward = 0]_vars
    /\ [](/\ maker.remainder_reward >= 0
          /\ maker.remainder_reward <= maker.pre_upgrade_astro_amount
          /\ maker.rewards_enabled => maker.remainder_reward <= maker.astro)

\* One block after the last distribution 8 of the 25 pre-upgrade ASTRO that
\* vest over 3 blocks are released (floor(25 / 3) a block), with the 7 new
\* ASTRO; 9 remain.
C16_Witness ==
    /\ call.msg = "distribute_astro"
    /\ maker.pre_upgrade_astro_amount = 25
    /\ maker.pre_upgrade_blocks = 3
    /\ response.preupgrade_astro_distribution = 8
    /\ response.astro_distribution = 7
    /\ maker.remainder_reward = 9

\* The remainder is exhausted by a release smaller than the elapsed blocks
\* allow.
C16_WitnessCapped ==
    /\ call.msg = "distribute_astro"
    /\ maker.pre_upgrade_astro_amount = 25
    /\ maker.pre_upgrade_blocks = 3
    /\ response.preupgrade_astro_distribution = 1
    /\ maker.remainder_reward = 0

\* After the remainder reached 0, a distribution releases the new ASTRO, in
\* the block of the distribution before it.
C16_WitnessFinished ==
    /\ call.msg = "distribute_astro"
    /\ maker.rewards_enabled
    /\ maker.pre_upgrade_astro_amount = 25
    /\ maker.remainder_reward = 0
    /\ response.preupgrade_astro_distribution = 0
    /\ response.astro_distribution = 7
    /\ maker.last_distribution_block = maker.height

\* C17: a distribution run in the block of the last one (height =
\* last_distribution_block) while pre-upgrade rewards remain releases
\* nothing: the governance, staking and maker balances and remainder_reward
\* are after it what they were before it.
C17_SameBlockReleasesNothing ==
    [][(/\ DistributeStep
        /\ maker.rewards_enabled
        /\ maker.remainder_reward > 0
        /\ maker.height = maker.last_distribution_block) =>
          /\ response'.preupgrade_astro_distribution = 0
          /\ response'.astro_distribution = 0
          /\ maker'.governance = maker.governance
          /\ maker'.staking = maker.staking
          /\ maker'.astro = maker.astro
          /\ maker'.remainder_reward = maker.remainder_reward
          /\ maker'.last_distribution_block = maker.last_distribution_block]_vars

\* A second distribution in the block of one that released pre-upgrade
\* ASTRO, with new ASTRO waiting, released nothing.
C17_Witness ==
    /\ call.msg = "distribute_astro"
    /\ maker.rewards_enabled
    /\ maker.governance > 0
    /\ maker.remainder_reward > 0
    /\ maker.last_distribution_block = maker.height
    /\ maker.astro > maker.remainder_reward
    /\ response.preupgrade_astro_distribution = 0
    /\ response.astro_distribution = 0


----------------------------------------------------------------------------
(* Specification SpecCollect: collections under a bridge map the owner can *)
(* have set with the factory of SpecBridges.  The host delivers every      *)
(* message a step sends within the transaction, hence the weak fairness of *)
(* the follow-up steps in FairSpecCollect.                                 *)

\* No bridge; the longest chain validate_bridge accepts as it is built,
\* b -> c -> d -> e; the chain a -> b -> c -> d -> e, left by replacing b's
\* bridge; the cycle a <-> b; and c -> d after d's bridge was removed.
CollectBridgeMaps ==
    {NoBridges,
     ("b" :> "c") @@ ("c" :> "d") @@ ("d" :> "e"),
     ("a" :> "b") @@ ("b" :> "c") @@ ("c" :> "d") @@ ("d" :> "e"),
     ("a" :> "b") @@ ("b" :> "a"),
     ("c" :> "d")}

InitSpecCollect ==
    /\ InitPair
    /\ InitStaking
    /\ factory = Registry
    /\ bridges \in CollectBridgeMaps
    /\ maker = InitConfig
    /\ call = NoCall
    /\ response = NoResponse

NextCollect == ReceiveFees \/ CollectFees \/ SwapBridgeAssets \/ DistributeAstro

SpecCollect == InitSpecCollect /\ [][NextCollect]_vars

FairSpecCollect ==
    SpecCollect /\ WF_vars(SwapBridgeAssets) /\ WF_vars(DistributeAstro)

\* A step of a Collect that sends swaps: the Collect call or a follow-up.
SwapStep == call'.msg \in {"collect", "swap_bridge_assets"}

\* The swaps of a response leave a bridge asset when one of them is not
\* with an ASTRO pool.
LeavesBridgeAsset(r) ==
    \E i \in 1..Len(r.messages) : AstroToken \notin r.messages[i].pool

\* C19: every Collect terminates.  Its follow-ups are SwapBridgeAssets steps
\* carrying the depths BRIDGES_INITIAL_DEPTH, +1, +2, ...; a step runs only
\* at a depth below BRIDGES_EXECUTION_MAX_DEPTH, so at most
\* BRIDGES_EXECUTION_MAX_DEPTH of them run, and one delivered at that depth
\* fails; a step that succeeds is followed by DistributeAstro exactly when
\* it leaves no bridge asset to swap, and by the next SwapBridgeAssets
\* otherwise; a step that fails ends the Collect; and a Collect in progress
\* always comes to its end.
C19_CollectTerminates ==
    /\ [][/\ (call'.msg = "collect" /\ response'.err = "ok"
                /\ maker'.collect.step = "swap_bridge_assets") =>
                    maker'.collect.depth = BRIDGES_INITIAL_DEPTH
          /\ call'.msg = "swap_bridge_assets" =>
                /\ call'.depth = maker.collect.depth
                /\ call'.depth = maker.collect.hops - 1
                /\ call'.depth <= BRIDGES_EXECUTION_MAX_DEPTH
                /\ response'.err = "ok" =>
                      /\ call'.depth < BRIDGES_EXECUTION_MAX_DEPTH
                      /\ maker'.collect.step = "swap_bridge_assets" =>
                            maker'.collect.depth = call'.depth + 1
                /\ call'.depth = BRIDGES_EXECUTION_MAX_DEPTH =>
                      response'.err = "MaxBridgeDepth"
          /\ (SwapStep /\ response'.err = "ok") =>
                /\ maker'.collect.step =
                      IF LeavesBridgeAsset(response') THEN "swap_bridge_assets"
                      ELSE "distribute_astro"
          /\ (SwapStep /\ response'.err # "ok") => maker'.collect.step = "idle"
          /\ call'.msg = "distribute_astro" =>
                (maker.collect.step = "distribute_astro"
                   /\ maker'.collect.step = "idle")]_vars
    /\ [](maker.collect.hops <= 1 + BRIDGES_EXECUTION_MAX_DEPTH)
    /\ (maker.collect.step # "idle") ~> (maker.collect.step = "idle")

\* The Collect of b along b -> c -> d -> e -> ASTRO: the third
\* SwapBridgeAssets, at depth 2, swapped e for ASTRO and DistributeAstro
\* follows.
C19_Witness ==
    /\ call.msg = "swap_bridge_assets"
    /\ call.depth = BRIDGES_EXECUTION_MAX_DEPTH - 1
    /\ response.err = "ok"
    /\ maker.collect.step = "distribute_astro"
    /\ maker.collect.hops = 1 + BRIDGES_EXECUTION_MAX_DEPTH
    /\ maker.astro > 0

\* A Collect that ended by failing at the execution depth limit.
C19_WitnessFails ==
    /\ call.msg = "swap_bridge_assets"
    /\ call.depth = BRIDGES_EXECUTION_MAX_DEPTH
    /\ response.err = "MaxBridgeDepth"
    /\ maker.collect.step = "idle"

\* A Collect that ended with its DistributeAstro.
C19_WitnessDistributed ==
    /\ call.msg = "distribute_astro"
    /\ maker.collect.step = "idle"
    /\ bridges # NoBridges


\* C20: in a multi-hop Collect each hop is its own atomic step: when a
\* follow-up step or one of its swaps fails, what the earlier hops did stays
\* committed, so the failing step leaves the maker's balances as they were
\* when it started.
C20_EarlierHopsStayCommitted ==
    [][(call'.msg = "swap_bridge_assets" /\ response'.err # "ok") =>
          (maker'.fees = maker.fees /\ maker'.astro = maker.astro)]_vars


\* The return of a swap before the commission, as compute_swap computes it.
PreCommissionReturn(offer_pool, ask_pool, offer_amount) ==
    ask_pool - Decimal256_to_uint_ceil(
                   Decimal256_from_ratio(offer_pool * ask_pool,
                                         offer_pool + offer_amount))

\* The no-slippage quote offer_amount * (ask_pool / offer_pool), the ratio
\* being a Decimal256.
NoSlippageQuote(offer_pool, ask_pool, offer_amount) ==
    FullMulDiv((ask_pool * DECIMAL_FRACTIONAL) \div offer_pool, offer_amount,
               DECIMAL_FRACTIONAL)

\* The spread of an application is negative: the no-slippage quote,
\* taken exactly or over the Decimal256 ratio, is below the amount `pre`.
NegativeSpread(offer_amount, pre) ==
    \/ (offer_amount * call.ask_pool) \div call.offer_pool < pre
    \/ NoSlippageQuote(call.offer_pool, call.ask_pool, offer_amount) < pre

\* C21: a negative spread is treated as zero, not as an error.  Where the
\* return amount is computable (offer_pool > 0, commission_rate <= 1), an
\* application of compute_swap whose no-slippage quote is below the
\* pre-commission return succeeds with spread_amount = 0; and an application
\* of compute_offer_amount that succeeds with a no-slippage quote below the
\* pre-commission ask amount reports spread_amount = 0.
C21_NegativeSpreadIsZero ==
    /\ (call.fn = "compute_swap" /\ response # NoResponse
          /\ call.offer_pool > 0 /\ call.commission_rate <= DECIMAL_FRACTIONAL
          /\ NegativeSpread(call.amount,
                 PreCommissionReturn(call.offer_pool, call.ask_pool, call.amount)))
       => (response.err = "ok" /\ response.spread_amount = 0)
    /\ (call.fn = "compute_offer_amount" /\ response # NoResponse
          /\ response.err = "ok" /\ call.offer_pool > 0
          /\ NegativeSpread(response.offer_amount,
                 Uint256_mul_Decimal256(call.amount,
                     Decimal256_div(Decimal_one,
                                    Decimal_one - call.commission_rate))))
       => response.spread_amount = 0


\* C22: every multiply-then-divide on token amounts is carried out at wide
\* precision and fails for overflow only when its final result does not fit
\* the amount width: an Enter whose floor(amount * total_shares /
\* total_deposit) fits (and whose new share supply fits) is accepted, and
\* so is a Leave whose floor(amount * total_deposit / total_shares) fits.
C22_WideMulDiv ==
    [][/\ (EnterStep /\ staking.total_shares > 0 /\ staking.total_deposit > 0
             /\ staking.total_shares + EnterShares(call'.amount) <= MaxUint128)
          => response'.err = "ok"
       /\ (LeaveStep /\ staking.total_shares > 0
             /\ LeavePayout(call'.amount) <= MaxUint128)
          => response'.err = "ok"]_vars


\* C23: accumulate_prices never fails: for nonzero reserves and every
\* elapsed time both price increments are computed without error.
C23_AccumulatePricesNeverFails ==
    (call.fn = "accumulate_prices" /\ response # NoResponse
        /\ call.x # 0 /\ call.y # 0)
    => response.err = "ok"


----------------------------------------------------------------------------
(* Specification SpecPoolValue: the pair of Spec with no transfer to it    *)
(* other than the deposits and offers of its own operations.               *)

NextPoolValue == ProvideLiquidity \/ WithdrawLiquidity \/ Swap \/ NewBlock

SpecPoolValue == Init /\ [][NextPoolValue]_vars

\* a / c >= d / b for positive c and b, compared by continued fractions so
\* that no product wider than the operands is formed.
RECURSIVE FracGeq(_, _, _, _)
FracGeq(a, c, d, b) ==
    IF a \div c # d \div b THEN a \div c > d \div b
    ELSE IF d % b = 0 THEN TRUE
    ELSE IF a % c = 0 THEN FALSE
    ELSE FracGeq(b, d % b, c, a % c)

\* C24: over provide_liquidity, withdraw_liquidity and swap, without
\* external donations, the pool value per LP share never decreases: between
\* two consecutive states with total_share > 0,
\* reserve0 * reserve1 / total_share^2 does not go down.
C24_ValuePerShareNeverDecreases ==
    [][(total_share > 0 /\ total_share' > 0)
        => FracGeq(balances'[1] * balances'[2], total_share' * total_share',
                   balances[1] * balances[2], total_share * total_share)]_vars


\* C25: over Enter, Leave and donations to the staking balance, the
\* exchange rate total_deposit / total_shares never decreases while
\* total_shares > 0; an Enter never mints more than
\* amount * total_shares / total_deposit and a Leave never pays more than
\* amount * total_deposit / total_shares.
C25_RateNeverDecreases ==
    [][/\ (staking.total_shares > 0 /\ staking'.total_shares > 0)
          => staking'.total_deposit * staking.total_shares
                >= staking.total_deposit * staking'.total_shares
       /\ (EnterStep /\ response'.err = "ok"
             /\ staking.total_shares > 0 /\ staking.total_deposit > 0)
          => (staking'.total_shares - staking.total_shares) * staking.total_deposit
                <= call'.amount * staking.total_shares
       /\ (LeaveStep /\ response'.err = "ok")
          => (staking.total_deposit - staking'.total_deposit) * staking.total_shares
                <= call'.amount * staking.total_deposit]_vars

\* A Leave after a donation paid less than the exact share of the deposit
\* (the payout is rounded down), and shares remain: the rate has risen.
C25_Witness ==
    /\ call.msg = "receive" /\ call.hook = "leave" /\ call.sender = XAstroToken
    /\ response.err = "ok"
    /\ staking.total_shares > 0
    /\ response.messages[2].amount * (staking.total_shares + call.amount)
          < call.amount * (staking.total_deposit + response.messages[2].amount)

\* An Enter after a donation minted fewer shares than the exact quotient.
C25_WitnessEnter ==
    /\ call.msg = "receive" /\ call.hook = "enter" /\ call.sender = AstroToken
    /\ response.err = "ok"
    /\ response.messages[1].amount > 0
    /\ response.messages[1].amount * (staking.total_deposit - call.amount)
          < call.amount * (staking.total_shares - response.messages[1].amount)


----------------------------------------------------------------------------
(* Specification SpecDeposits: deposits of one unit and of hundreds into   *)
(* the pair, with the widest and the default slippage tolerance.           *)

SmallDeposits == {1, 2, 100, 200}

ProvideSmall ==
    /\ tx_count < MaxCalls
    /\ \E d0 \in SmallDeposits, d1 \in SmallDeposits :
      \E tol \in {None, Some(MAX_ALLOWED_SLIPPAGE)} :
          Transaction(ProvideCall(d0, d1, tol))

NextDeposits == ProvideSmall \/ NewBlock

SpecDeposits == Init /\ [][NextDeposits]_vars

\* C26: every successful provide_liquidity mints a strictly positive amount
\* of LP shares: no deposit of two positive amounts is accepted in exchange
\* for zero shares.
C26_ProvideMintsPositive ==
    [][Handled("provide_liquidity") =>
          (response'.share > 0 /\ total_share' > total_share)]_vars


\* C27: every successful Enter with amount > 0 mints a strictly positive
\* amount of shares, in every reachable state, including those reached
\* after donations have raised the staking balance relative to the share
\* supply.
C27_EnterMintsPositive ==
    [][(EnterStep /\ response'.err = "ok" /\ call'.amount > 0)
          => (response'.messages[1].amount > 0
                /\ staking'.total_shares > staking.total_shares)]_vars


----------------------------------------------------------------------------
(* Specification SpecTwap: the pair taking balanced deposits, withdrawals, *)
(* swaps and direct transfers over several blocks, for the oracle's        *)
(* treatment of the interval before each operation.                        *)

ProvideBalanced ==
    /\ tx_count < MaxCalls
    /\ \E d0 \in {100, 200}, d1 \in {100, 200} :
          Transaction(ProvideCall(d0, d1, None))

NextTwap ==
    ProvideBalanced \/ WithdrawLiquidity \/ Swap \/ Donate \/ NewBlock

SpecTwap == Init /\ [][NextTwap]_vars

\* A step that is a successful provide_liquidity, withdraw_liquidity or swap.
HandledOperation ==
    /\ tx_count' = tx_count + 1
    /\ call'.msg \in {"provide_liquidity", "withdraw_liquidity", "swap"}
    /\ response'.err = "ok"

\* The accumulator after adding the price of y in x over the given time.
Accumulated(last, elapsed, x, y) ==
    (last + FullMulDiv(elapsed * 10 ^ TwapPrecision, y, x)) % (MaxUint128 + 1)

\* C28: an operation that runs at a block time later than block_time_last
\* while either reserve is zero leaves both cumulative prices unchanged and
\* sets block_time_last to the block time; block_time_last never moves back,
\* and an operation that accumulates adds the price over exactly the time
\* since block_time_last, so the skipped interval is never added later and
\* the next accumulation covers only the time since the skipping operation.
C28_ZeroReserveIntervalSkipped ==
    [][ /\ config'.block_time_last >= config.block_time_last
        /\ (HandledOperation /\ block_time > config.block_time_last)
            => /\ config'.block_time_last = block_time
               /\ IF response'.pools[1] = 0 \/ response'.pools[2] = 0
                  THEN /\ config'.price0_cumulative_last
                             = config.price0_cumulative_last
                       /\ config'.price1_cumulative_last
                             = config.price1_cumulative_last
                  ELSE /\ config'.price0_cumulative_last
                             = Accumulated(config.price0_cumulative_last,
                                   block_time - config.block_time_last,
                                   response'.pools[1], response'.pools[2])
                       /\ config'.price1_cumulative_last
                             = Accumulated(config.price1_cumulative_last,
                                   block_time - config.block_time_last,
                                   response'.pools[2], response'.pools[1]) ]_vars

\* The first deposit ran at block time 1 on the empty pool and skipped the
\* interval since instantiation; a second operation one block later has
\* accumulated the price of equal reserves over that one second only.
C28_Witness ==
    /\ tx_count = 2
    /\ response.err = "ok"
    /\ call.msg \in {"provide_liquidity", "withdraw_liquidity", "swap"}
    /\ response.pools[1] = response.pools[2]
    /\ response.pools[1] > 0
    /\ config.block_time_last = 2
    /\ config.price0_cumulative_last = 10 ^ TwapPrecision
    /\ config.price1_cumulative_last = 10 ^ TwapPrecision

\* After a direct transfer to the empty pool, the first operation has run on
\* a pool with exactly one zero reserve, in a block after the one of
\* instantiation: the accumulators are still zero and block_time_last is the
\* block time.
C28_WitnessOneZeroReserve ==
    /\ tx_count = 2
    /\ response.err = "ok"
    /\ call.msg \in {"provide_liquidity", "withdraw_liquidity", "swap"}
    /\ (response.pools[1] = 0) # (response.pools[2] = 0)
    /\ config.block_time_last = block_time
    /\ block_time > 1
    /\ config.price0_cumulative_last = 0
    /\ config.price1_cumulative_last = 0

\* C29: a successful swap, provide_liquidity or withdraw_liquidity in a block
\* later than block_time_last hands accumulate_prices the pair's reserves as
\* they were before the operation (the offered amount and the native
\* deposits not counted, token deposits and refunds not applied): with both
\* of those reserves nonzero the accumulators grow by their price over the
\* elapsed time, otherwise they stay, so the operation's own transfers never
\* enter the interval that precedes it.
C29_AccumulatesPreOperationReserves ==
    [][ (HandledOperation /\ block_time > config.block_time_last)
        => /\ response'.pools = balances
           /\ IF balances[1] # 0 /\ balances[2] # 0
              THEN /\ config'.price0_cumulative_last
                         = Accumulated(config.price0_cumulative_last,
                               block_time - config.block_time_last,
                               balances[1], balances[2])
                   /\ config'.price1_cumulative_last
                         = Accumulated(config.price1_cumulative_last,
                               block_time - config.block_time_last,
                               balances[2], balances[1])
              ELSE /\ config'.price0_cumulative_last
                         = config.price0_cumulative_last
                   /\ config'.price1_cumulative_last
                         = config.price1_cumulative_last ]_vars

\* A swap, one block after the first deposit, has accumulated the price of
\* the reserves it found, which is not the price of the reserves it left.
C29_Witness ==
    /\ tx_count = 2
    /\ call.msg = "swap"
    /\ response.err = "ok"
    /\ config.block_time_last = 2
    /\ response.pools[1] > 0 /\ response.pools[2] > 0
    /\ config.price0_cumulative_last
          = Accumulated(0, 1, response.pools[1], response.pools[2])
    /\ config.price0_cumulative_last
          # Accumulated(0, 1, balances[1], balances[2])

\* A second deposit, one block after the first, has accumulated the price of
\* the reserves it found, which is not the price of the balances the pair
\* held while it ran (the native deposit received, the token deposit not yet
\* pulled).
C29_WitnessProvide ==
    /\ tx_count = 2
    /\ call.msg = "provide_liquidity"
    /\ response.err = "ok"
    /\ config.block_time_last = 2
    /\ response.pools[1] > 0 /\ response.pools[2] > 0
    /\ config.price0_cumulative_last
          = Accumulated(0, 1, response.pools[1], response.pools[2])
    /\ config.price0_cumulative_last
          # Accumulated(0, 1, response.pools[1] + call.deposits[1],
                        response.pools[2])

\* The same for a withdrawal, which leaves the reserves below the ones it
\* accumulated from.
C29_WitnessWithdraw ==
    /\ tx_count = 2
    /\ call.msg = "withdraw_liquidity"
    /\ response.err = "ok"
    /\ config.block_time_last = 2
    /\ balances[1] > 0 /\ balances[1] < response.pools[1]
    /\ response.pools[1] # response.pools[2]
    /\ config.price0_cumulative_last
          = Accumulated(0, 1, response.pools[1], response.pools[2])

----------------------------------------------------------------------------
(* Specification FairSpecVesting: a small ASTRO balance arrives at the     *)
(* maker, the owner enables the rewards over 2 or 3 blocks, and from then  *)
(* on blocks keep passing and the rewards keep being collected and         *)
(* distributed. The rewards are enabled early enough for the blocks of the *)
(* model to hold twice the vesting period, which is more than any balance  *)
(* with a positive per-block portion needs to be released in full.         *)

VestingAmounts == {2, 7}
VestingBlocks == {0, 2, 3}

\* ASTRO arrives at the maker before or after the rewards are enabled.
VestingDeposit ==
    /\ maker.collect.step = "idle"
    /\ tx_count < MaxAstroDeposits
    /\ \E amount \in VestingAmounts :
          /\ maker' = [maker EXCEPT !.astro = @ + amount]
          /\ call' = [msg |-> "transfer", asset |-> AstroToken, amount |-> amount]
    /\ response' = [err |-> "ok", messages |-> <<>>]
    /\ tx_count' = tx_count + 1
    /\ UNCHANGED <<stakingIdle, factory, bridges>>

\* EnableRewards { blocks } by the owner.
EnableVesting ==
    /\ maker.collect.step = "idle"
    /\ \E blocks \in VestingBlocks :
          /\ maker.height + 2 * blocks <= MaxHeight + 1
          /\ call' = [msg |-> "enable_rewards", sender |-> Owner, blocks |-> blocks]
          /\ response' = [err |-> enable_rewards(maker, call', maker.height).err,
                          messages |-> <<>>]
          /\ maker' = enable_rewards(maker, call', maker.height).cfg
    /\ UNCHANGED <<stakingIdle, factory, bridges, tx_count>>

NextVesting ==
    VestingDeposit \/ EnableVesting \/ NextBlock \/ CollectAstro
        \/ DistributeAstro

SpecVesting == InitSpecMaker /\ [][NextVesting]_vars

\* Blocks keep coming and someone keeps calling Collect, both between the
\* maker's transactions (strong fairness: neither can happen in the middle
\* of a Collect), and the host delivers the DistributeAstro every Collect
\* ends with.
FairSpecVesting ==
    /\ SpecVesting
    /\ SF_vars(NextBlock)
    /\ SF_vars(CollectAstro)
    /\ WF_vars(DistributeAstro)

\* C30: once the rewards are enabled (with whatever balance the maker holds
\* as pre_upgrade_amount, over any number of blocks > 0), and the reward
\* distribution keeps being run in later and later blocks, remainder_reward
\* eventually reaches 0: the whole pre-upgrade balance is released.
C30_RemainderEventuallyZero ==
    maker.rewards_enabled ~> (maker.remainder_reward = 0)

\* The same for a pre-upgrade balance of 0 or of at least one unit a block.
VestingWithPositivePortionFinishes ==
    (/\ maker.rewards_enabled
     /\ \/ maker.pre_upgrade_astro_amount = 0
        \/ maker.pre_upgrade_astro_amount >= maker.pre_upgrade_blocks)
        ~> (maker.remainder_reward = 0)

\* A pre-upgrade balance smaller than the number of blocks is never touched
\* by a distribution, however late it runs.
StuckRemainderStays ==
    [][(/\ maker.rewards_enabled
        /\ maker.remainder_reward > 0
        /\ maker.pre_upgrade_astro_amount < maker.pre_upgrade_blocks) =>
          maker'.remainder_reward = maker.remainder_reward]_vars

====
